---------------------------- MODULE Spec2Model ----------------------------
(***************************************************************************)
(* Migration of the legacy sharded file repository to the disk object      *)
(* store: aiida/backends/general/migrations/utils.py                       *)
(* (migrate_legacy_repository, get_node_repository_dirpaths,               *)
(* serialize_repository) and the two backend migration steps that call it  *)
(* (Django 0047_migrate_repository, SQLAlchemy 1feaea71bd5a).              *)
(***************************************************************************)
EXTENDS Integers, Sequences, FiniteSets, TLC

(***************************************************************************)
(* Bounds of the model.                                                    *)
(***************************************************************************)
\* Identity folders (third-level shard entries) in the legacy repository.
MaxFolders == 2
\* Files and subdirectories, in total, below all `path`/`raw_input` folders.
MaxNodes == 2
\* Entries of the list given to get_unique_filename.
MaxListOfFilenames == 3
\* Rows, at most, of the table given to deduplicate_uuids.
MaxRows == 4

\* Names of files and subdirectories inside a content folder.
Names == {"a", "b"}
\* File contents (the bytes of a file; only equality of contents matters).
Contents == {"abc", "xyz"}

(***************************************************************************)
(* The legacy file system.  A directory is a function from entry names to  *)
(* entries; an entry is a regular file with its content or a directory.    *)
(***************************************************************************)
EmptyDir == [n \in {} |-> n]
\* Whether k is a key of the function (dictionary, directory) f.
HasKey(f, k) == \E x \in DOMAIN f : x = k

FileEntry(c) == [type |-> "file", content |-> c]
DirEntry(d) == [type |-> "dir", entries |-> d]

RECURSIVE DirSize(_)
DirSize(d) ==
    LET RECURSIVE Sum(_)
        Sum(S) == IF S = {} THEN 0
                  ELSE LET n == CHOOSE x \in S : TRUE
                       IN  1 + (IF d[n].type = "dir" THEN DirSize(d[n].entries) ELSE 0)
                             + Sum(S \ {n})
    IN  Sum(DOMAIN d)

RECURSIVE DirsUpTo(_)
DirsUpTo(n) ==
    IF n = 0 THEN {EmptyDir}
    ELSE LET entries == {FileEntry(c) : c \in Contents}
                          \cup {DirEntry(d) : d \in DirsUpTo(n - 1)}
         IN  {d \in UNION {[S -> entries] : S \in SUBSET Names} : DirSize(d) <= n}

\* A `path` or `raw_input` folder is absent or a directory.
NoDir == [type |-> "absent"]
OptDirSize(e) == IF e.type = "dir" THEN DirSize(e.entries) ELSE 0
OptDirsUpTo(n) == {NoDir} \cup {DirEntry(d) : d \in DirsUpTo(n)}

(***************************************************************************)
(* Shard names.  A name is a string; Chars gives the characters of a shard *)
(* name (the sequence whose concatenation is the name), so that the        *)
(* regular expressions of the scanner are evaluated on the characters.     *)
(***************************************************************************)
HexDigits == {"0", "1", "2", "3", "4", "5", "6", "7", "8", "9", "a", "b", "c", "d", "e", "f"}
\* The hexadecimal digit that names the shards of the i-th identity folder.
FolderDigit == <<"a", "b", "c", "d", "e", "f">>

Rep(c, n) == [i \in 1..n |-> c]
RECURSIVE Str(_)
Str(cs) == IF cs = <<>> THEN "" ELSE cs[1] \o Str(Tail(cs))

\* The last 32 characters of a 36-character UUID xxxxxxxx-xxxx-xxxx-xxxx-xxxxxxxxxxxx.
TailChars(c) ==
    Rep(c, 4) \o <<"-">> \o Rep(c, 4) \o <<"-">> \o Rep(c, 4) \o <<"-">> \o Rep(c, 4)
      \o <<"-">> \o Rep(c, 12)
\* The last 28 characters of a UUID written without hyphens.
ShortTailChars(c) == Rep(c, 28)
TmpChars == <<"t", "m", "p">>

ShardCharSeqs ==
    {TmpChars} \cup UNION {{Rep(FolderDigit[i], 2), TailChars(FolderDigit[i]),
                             ShortTailChars(FolderDigit[i])} : i \in 1..Len(FolderDigit)}
ShardNames == {<<Str(cs), cs>> : cs \in ShardCharSeqs}
Chars(name) == (CHOOSE p \in ShardNames : p[1] = name)[2]

\* The shard names <<first, second, third>> of the i-th identity folder of a
\* well-formed legacy repository: the UUID split 2/2/32.
GoodShards(i) ==
    LET c == FolderDigit[i] IN <<Str(Rep(c, 2)), Str(Rep(c, 2)), Str(TailChars(c))>>
\* Entries of the legacy repository that are no identity folders: a name that
\* does not match at the first, the second or the third level.
BadShards(i) ==
    LET c == FolderDigit[i]
    IN  {<<Str(TmpChars), Str(Rep(c, 2)), Str(TailChars(c))>>,
         <<Str(Rep(c, 2)), Str(TmpChars), Str(TailChars(c))>>,
         <<Str(Rep(c, 2)), Str(Rep(c, 2)), Str(ShortTailChars(c))>>}

\* Mutant: any name is accepted at the first two levels.
RegexSubLevelAny(name) == Len(Chars(name)) >= 0
\* Mutant: the last shard may have the 28 characters that a UUID without
\* hyphens leaves, as well as 32.
RegexFinalLevel28(name) ==
    LET cs == Chars(name)
    IN  Len(cs) \in {28, 32} /\ \A i \in 1..Len(cs) : cs[i] \in HexDigits \cup {"-"}

\* REGEX_SHARD_SUB_LEVEL = ^[0-9a-f]{2}$
REGEX_SHARD_SUB_LEVEL(name) ==
    LET cs == Chars(name) IN Len(cs) = 2 /\ \A i \in 1..Len(cs) : cs[i] \in HexDigits
\* REGEX_SHARD_FINAL_LEVEL = ^[0-9a-f-]{32}$
REGEX_SHARD_FINAL_LEVEL(name) ==
    LET cs == Chars(name)
    IN  Len(cs) = 32 /\ \A i \in 1..Len(cs) : cs[i] \in HexDigits \cup {"-"}

(***************************************************************************)
(* The legacy repository: the identity folders in the order in which the   *)
(* nested iterdir() loops of the scanner meet them.                        *)
(***************************************************************************)
Folder(shards, p, r) == [shards |-> shards, path |-> p, raw_input |-> r]
FolderSize(f) == OptDirSize(f.path) + OptDirSize(f.raw_input)

\* The contents of an identity folder with at most n files and subdirectories.
FolderContents ==
    [n \in 0..MaxNodes |->
        {pr \in OptDirsUpTo(n) \X OptDirsUpTo(n) : OptDirSize(pr[1]) + OptDirSize(pr[2]) <= n}]

FolderChoices(i, n) ==
    {Folder(GoodShards(i), pr[1], pr[2]) : pr \in FolderContents[n]}
      \cup {Folder(s, NoDir, NoDir) : s \in BadShards(i)}

RECURSIVE LegacyFoldersFrom(_, _)
LegacyFoldersFrom(i, n) ==
    IF i > MaxFolders THEN {<<>>}
    ELSE {<<>>} \cup UNION {{<<f>> \o rest : rest \in LegacyFoldersFrom(i + 1, n - FolderSize(f))}
                              : f \in FolderChoices(i, n)}
LegacyFolders == LegacyFoldersFrom(1, MaxNodes)

(***************************************************************************)
(* Paths, as pathlib does: a path is the sequence of its parts, an         *)
(* absolute path starts with the part "/".                                 *)
(***************************************************************************)
IsAbsolute(p) == p # <<>> /\ p[1] = "/"
\* pathlib's a / b: an absolute right operand replaces the left one.
PathJoin(a, b) == IF IsAbsolute(b) THEN b ELSE a \o b
PathName(p) == p[Len(p)]

\* profile.repository_path: the profile stores an absolute path.
RepositoryPath == <<"/", "repo">>
\* pathlib.Path(profile.repository_path) / 'repository' / 'node'
Basepath == PathJoin(PathJoin(RepositoryPath, <<"repository">>), <<"node">>)

\* The entries of an identity folder, as a directory.
FolderDir(f) ==
    [n \in {m \in {"path", "raw_input"} : f[m].type = "dir"} |-> f[n]]

RECURSIVE Descend(_, _)
\* The entry reached from directory d along the parts (NoDir when there is none).
Descend(d, parts) ==
    IF parts = <<>> THEN DirEntry(d)
    ELSE IF ~HasKey(d, parts[1]) THEN NoDir
    ELSE IF Len(parts) = 1 THEN d[parts[1]]
    ELSE IF d[parts[1]].type # "dir" THEN NoDir
    ELSE Descend(d[parts[1]].entries, Tail(parts))

\* The entry of the legacy repository `fs` at the absolute path p, which lies
\* in or below an identity folder.
EntryAt(fs, p) ==
    LET n == Len(Basepath)
        hits == {i \in 1..Len(fs) : Len(p) >= n + 3 /\ SubSeq(p, 1, n + 3) = Basepath \o fs[i].shards}
    IN  IF hits = {} THEN NoDir
        ELSE LET f == fs[CHOOSE i \in hits : TRUE]
             IN  Descend(FolderDir(f), SubSeq(p, n + 4, Len(p)))

(***************************************************************************)
(* Ordered dictionaries (Python dict): the keys in insertion order and the *)
(* value of each key.                                                      *)
(***************************************************************************)
EmptyDict == [keys |-> <<>>, val |-> [k \in {} |-> k]]
InDict(d, k) == HasKey(d.val, k)
DictSet(d, k, v) ==
    [keys |-> IF InDict(d, k) THEN d.keys ELSE Append(d.keys, k),
     val |-> [x \in DOMAIN d.val \cup {k} |-> IF x = k THEN v ELSE d.val[x]]]

(***************************************************************************)
(* Python values.  None, a string and a LazyOpener are records that are    *)
(* told apart by their field.                                              *)
(***************************************************************************)
None == [none |-> TRUE]
PyStr(s) == [str |-> s]
\* disk_objectstore.utils.LazyOpener(path): opens the file at `path` on demand.
LazyOpener(path) == [LazyOpener |-> path]
IsLazyOpener(v) == HasKey(v, "LazyOpener")
IsPyStr(v) == HasKey(v, "str")
Raised(exc) == [raised |-> exc]
IsRaised(v) == HasKey(v, "raised")
\* A value that is no string, no LazyOpener and not None.
PyInt(n) == [int |-> n]

FileType == {"DIRECTORY", "FILE"}
NoObjects == [n \in {} |-> n]

IsLazyFile(v) == HasKey(v, "file_type")

\* Mutant: the constructor without the two checks that raise ValueError.
LazyFileNoValueError(name, file_type, key, objects) ==
    IF ~IsPyStr(name) THEN Raised("TypeError")
    ELSE IF file_type \notin FileType THEN Raised("TypeError")
    ELSE IF key # None /\ ~(IsPyStr(key) \/ IsLazyOpener(key)) THEN Raised("TypeError")
    ELSE IF objects # None /\ \E n \in DOMAIN objects : ~IsLazyFile(objects[n])
         THEN Raised("TypeError")
    ELSE [name |-> name.str, file_type |-> file_type, key |-> key,
          objects |-> IF objects = None THEN NoObjects ELSE objects]

\* LazyFile.__init__: the file class of the migration repository.  The name is
\* a Python value; the object keeps the string.
LazyFile(name, file_type, key, objects) ==
    IF ~IsPyStr(name) THEN Raised("TypeError")
    ELSE IF file_type \notin FileType THEN Raised("TypeError")
    ELSE IF key # None /\ ~(IsPyStr(key) \/ IsLazyOpener(key)) THEN Raised("TypeError")
    ELSE IF objects # None /\ \E n \in DOMAIN objects : ~IsLazyFile(objects[n])
         THEN Raised("TypeError")
    ELSE IF file_type = "DIRECTORY" /\ key # None THEN Raised("ValueError")
    ELSE IF file_type = "FILE" /\ objects # None THEN Raised("ValueError")
    ELSE [name |-> name.str, file_type |-> file_type, key |-> key,
          objects |-> IF objects = None THEN NoObjects ELSE objects]

\* Mutant: the backend stores the content and returns a key.
PutObjectFromFilelikeStores(handle_name) == PyStr("stored")

\* NoopRepositoryBackend.put_object_from_filelike(handle): nothing is written,
\* the "key" is a deferred opener of the file the handle was opened on.
PutObjectFromFilelike(handle_name) == LazyOpener(handle_name)

(***************************************************************************)
(* MigrationRepository: the virtual file hierarchy (aiida.repository).     *)
(***************************************************************************)
\* The order in which the entries of a directory are listed.
NameOrder == <<"a", "b">>

\* Repository.reset(): the root becomes an empty directory.
EmptyRepository == LazyFile(PyStr(""), "DIRECTORY", None, None)

RECURSIVE TreeOf(_, _, _)
\* The hierarchy of the directory d found at the absolute path `abspath`: one FILE
\* per regular file, keyed by what the backend returns for a handle opened on it,
\* and one DIRECTORY per subdirectory.
TreeOf(name, d, abspath) ==
    LazyFile(PyStr(name), "DIRECTORY", None,
             IF DOMAIN d = {} THEN None
             ELSE [n \in DOMAIN d |->
                     IF d[n].type = "file"
                     THEN LazyFile(PyStr(n), "FILE", PutObjectFromFilelike(abspath \o <<n>>), None)
                     ELSE TreeOf(n, d[n].entries, abspath \o <<n>>)])

RECURSIVE Collides(_, _)
\* Whether inserting the hierarchy `new` into `old` would put an object at a
\* relative path where `old` already holds a file, or a file where it holds any.
Collides(old, new) ==
    \E n \in {m \in DOMAIN new.objects : HasKey(old.objects, m)} :
        \/ old.objects[n].file_type = "FILE"
        \/ new.objects[n].file_type = "FILE"
        \/ Collides(old.objects[n], new.objects[n])

RECURSIVE Merge(_, _)
Merge(old, new) ==
    [old EXCEPT !.objects =
        [n \in DOMAIN old.objects \cup DOMAIN new.objects |->
            IF ~HasKey(new.objects, n) THEN old.objects[n]
            ELSE IF ~HasKey(old.objects, n) THEN new.objects[n]
            ELSE Merge(old.objects[n], new.objects[n])]]

\* Repository.put_object_from_tree(filepath): copies the directory at `filepath`
\* into the hierarchy; inserting a relative path twice without a reset fails.
PutObjectFromTree(repository, fs, filepath) ==
    LET new == TreeOf("", EntryAt(fs, filepath).entries, filepath)
    IN  IF Collides(repository, new) THEN Raised("FileExistsError")
        ELSE Merge(repository, new)

RECURSIVE Serialize(_)
\* File.serialize(): {'o': {...}} for a directory with objects, {} for an empty
\* directory, {'k': key} for a file.
Serialize(obj) ==
    IF obj.file_type = "DIRECTORY"
    THEN IF DOMAIN obj.objects # {}
         THEN [o |-> [n \in DOMAIN obj.objects |-> Serialize(obj.objects[n])]]
         ELSE <<>>
    ELSE [k |-> obj.key]

\* Mutant: an empty repository is serialized like one with objects.
SerializeRepositoryNoEmptyCase(repository) ==
    LET file_object == repository
    IN  IF file_object.file_type = "DIRECTORY"
        THEN [o |-> [key \in DOMAIN file_object.objects |->
                       Serialize(file_object.objects[key])]]
        ELSE [k |-> file_object.key]

\* Mutant: the empty directories of the root are left out of the document.
SerializeRepositoryDropsEmptyDirs(repository) ==
    LET file_object == repository
        kept == {key \in DOMAIN file_object.objects :
                    \/ file_object.objects[key].file_type = "FILE"
                    \/ DOMAIN file_object.objects[key].objects # {}}
    IN  IF kept # {}
        THEN [o |-> [key \in kept |-> Serialize(file_object.objects[key])]]
        ELSE <<>>

\* serialize_repository(repository)
SerializeRepository(repository) ==
    LET file_object == repository
    IN  IF file_object.file_type = "DIRECTORY"
        THEN IF DOMAIN file_object.objects # {}
             THEN [o |-> [key \in DOMAIN file_object.objects |->
                            Serialize(file_object.objects[key])]]
             ELSE <<>>
        ELSE [k |-> file_object.key]

NamesOfType(obj, file_type) ==
    SelectSeq(NameOrder, LAMBDA n : HasKey(obj.objects, n)
                                      /\ obj.objects[n].file_type = file_type)

RECURSIVE Walk(_, _)
\* Repository.walk(): <<root, dirnames, filenames>> for every directory of the
\* hierarchy, top-down, `root` relative to the root of the hierarchy.
Walk(obj, root) ==
    LET dirnames == NamesOfType(obj, "DIRECTORY")
        RECURSIVE Below(_)
        Below(i) == IF i > Len(dirnames) THEN <<>>
                    ELSE Walk(obj.objects[dirnames[i]], root \o <<dirnames[i]>>) \o Below(i + 1)
    IN  <<<<root, dirnames, NamesOfType(obj, "FILE")>>>> \o Below(1)

(***************************************************************************)
(* The metadata documents and the steps of migrate_legacy_repository that  *)
(* read and write them.                                                    *)
(***************************************************************************)
RECURSIVE Reduce(_, _)
\* functools.reduce(lambda objects, part: objects['o'].get(part), parts, metadata)
Reduce(metadata, parts) ==
    IF parts = <<>> THEN metadata
    ELSE Reduce(metadata.o[parts[1]], Tail(parts))

\* Mutant: only the files at the root of the hierarchy are recorded.
WalkFilepathsRootOnly(walk, node_uuid) ==
    [i \in 1..Len(walk[1][3]) |-> <<node_uuid, walk[1][1] \o <<walk[1][3][i]>>>>]

\* The (node_uuid, parts) and the streams the build loop appends for one node:
\* for root, _, filenames in repository.walk(): for filename in filenames: ...
WalkFilepaths(walk, node_uuid) ==
    LET RECURSIVE Files(_, _)
        Files(root, filenames) ==
            IF filenames = <<>> THEN <<>>
            ELSE <<<<node_uuid, root \o <<filenames[1]>>>>>> \o Files(root, Tail(filenames))
        RECURSIVE Dirs(_)
        Dirs(w) == IF w = <<>> THEN <<>> ELSE Files(w[1][1], w[1][3]) \o Dirs(Tail(w))
    IN  Dirs(walk)

\* Mutant: the streams of a node are appended in the reverse order.
WalkStreamsReversed(found, metadata) ==
    [i \in 1..Len(found) |-> Reduce(metadata, found[Len(found) + 1 - i][2]).k]

\* The streams the build loop appends for one node: the 'k' entry of each file.
WalkStreams(found, metadata) ==
    [i \in 1..Len(found) |-> Reduce(metadata, found[i][2]).k]

\* dict[key] = value on a document node (a dictionary with string keys).
SetItem(node, key, value) ==
    [x \in DOMAIN node \cup {key} |-> IF x = key THEN value ELSE node[x]]

RECURSIVE SetKeyBelow(_, _, _)
\* In the mapping `objects` of names onto document nodes: descend along the parts
\* but the last, through the 'o' entry of each, and set 'k' of the last part's node.
SetKeyBelow(objects, parts, hashkey) ==
    IF Len(parts) = 1
    THEN [objects EXCEPT ![parts[1]] = SetItem(@, "k", hashkey)]
    ELSE [objects EXCEPT ![parts[1]] =
            SetItem(@, "o", SetKeyBelow(@.o, Tail(parts), hashkey))]

\* Mutant: the regroup loop leaves the document as it is.
RegroupDocumentUnchanged(repository_metadata, parts, hashkey) == repository_metadata

\* One iteration of the regroup loop on the document of a node.
RegroupDocument(repository_metadata, parts, hashkey) ==
    SetItem(repository_metadata, "o", SetKeyBelow(repository_metadata.o, parts, hashkey))

(***************************************************************************)
(* The pack store (disk_objectstore.Container).                            *)
(***************************************************************************)
\* The key of an object: the hash of its content.
HashKey(content) == PyStr("sha256(" \o content \o ")")

\* What opening and reading the stream gives: the content of the file the
\* opener is bound to.
ReadStream(fs, stream) == EntryAt(fs, stream.LazyOpener).content

(***************************************************************************)
(* The state.                                                              *)
(***************************************************************************)
VARIABLES
    legacy_is_dir,            \* whether <repository_path>/repository/node is a directory
    legacy,                   \* the identity folders below it, in iteration order
    container_is_initialised, \* Container(filepath).is_initialised
    container_objects,        \* the keys of the objects in the pack store
    db,                       \* db_dbnode: uuid -> repository_metadata
    db_writes,                \* the uuids of the rows written, in order
    backend,                  \* the migration step that runs
    pc,                       \* where the run is
    raised,                   \* the exception that ended the run
    warnings,                 \* the echo.echo_warning calls
    shard_i,                  \* get_node_repository_dirpaths: the folder the loops are at
    mapping,                  \* get_node_repository_dirpaths: mapping
    path,                     \* get_node_repository_dirpaths: the local variable `path`
    node_i,                   \* the position of the build loop in node_repository_dirpaths
    repository,               \* the root of the hierarchy of the MigrationRepository
    mapping_metadata,
    filepaths,
    streams,
    pack_calls,               \* the calls of container.add_streamed_objects_to_pack
    hashkeys,
    zip_i,                    \* the position of the regroup loop
    result,                   \* what migrate_legacy_repository returned
    apply_i,                  \* the position of the loop of the migration step
    lazyfile_args,            \* the arguments of a call of LazyFile(...)
    lazyfile,                 \* what the call gave: the object, or the exception
    filename,                 \* get_unique_filename: the parameter
    list_of_filenames,        \* get_unique_filename: the parameter
    append_int,               \* get_unique_filename: the local variable
    new_filename,             \* get_unique_filename: the local variable
    unique_filename,          \* get_unique_filename: what it returned
    set_incompatibilities,    \* AbstractNode: the class attribute _set_incompatibilities
    arguments,                \* _set_internal: the keys of `arguments`, in iteration order
    set_attributes,           \* AbstractNode: what getattr(self, 'set_k') finds for key k
    set_i,                    \* _set_internal: the position of the loop over the arguments
    set_calls,                \* the keys whose set_k method was called, in order
    to_be_stored,             \* AbstractNode._to_be_stored of the node
    inputlinks_cache,         \* AbstractNode._inputlinks_cache of the node
    link_call,                \* the last call of a method of the links, and how it ended
    dedup_rows,               \* deduplicate_uuids: the rows of the table, pk -> uuid
    dedup_folders,            \* the node repository: uuid -> the files of its folder
    duplicates,               \* deduplicate_uuids: what get_duplicate_uuids returned
    dedup_i,                  \* deduplicate_uuids: the position of the loops over the mapping
    mapping_new_uuid,         \* deduplicate_uuids: mapping_new_uuid
    messages                  \* deduplicate_uuids: messages

vars == <<legacy_is_dir, legacy, container_is_initialised, container_objects, db, db_writes,
          backend, pc, raised, warnings, shard_i, mapping, path, node_i, repository,
          mapping_metadata, filepaths, streams, pack_calls, hashkeys, zip_i, result,
          apply_i, lazyfile_args, lazyfile, filename, list_of_filenames, append_int,
          new_filename, unique_filename, set_incompatibilities, arguments, set_attributes,
          set_i, set_calls, to_be_stored, inputlinks_cache, link_call,
          dedup_rows, dedup_folders, duplicates, dedup_i, mapping_new_uuid, messages>>

environment == <<legacy_is_dir, legacy, container_is_initialised>>
scan_vars == <<shard_i, mapping, path>>
build_vars == <<node_i, repository, mapping_metadata, filepaths, streams>>
pack_vars == <<pack_calls, hashkeys, container_objects>>
db_vars == <<db, db_writes, apply_i>>
lazyfile_vars == <<lazyfile_args, lazyfile>>
unique_vars == <<filename, list_of_filenames, append_int, new_filename, unique_filename>>
\* The variables of the functions that are no part of the migration.
set_vars == <<set_incompatibilities, arguments, set_attributes, set_i, set_calls>>
link_vars == <<to_be_stored, inputlinks_cache, link_call>>
dedup_vars == <<dedup_rows, dedup_folders, duplicates, dedup_i, mapping_new_uuid, messages>>
library_vars == <<lazyfile_vars, unique_vars, set_vars, link_vars, dedup_vars>>

\* A local variable that has not been assigned.
Unbound == <<"<unbound>">>
\* The return value of migrate_legacy_repository: none yet, None, or a dictionary.
NoResult == [kind |-> "pending"]
ResultNone == [kind |-> "None"]
ResultDict(d) == [kind |-> "dict", value |-> d]
\* No call of LazyFile(...) is being looked at.
NoArgs == [name |-> PyStr(""), file_type |-> "DIRECTORY", key |-> None, objects |-> None]
NotConstructed == [constructed |-> FALSE]

\* shard_one.name + shard_two.name + shard_three.name
Uuid(shards) == shards[1] \o shards[2] \o shards[3]
\* The UUID of a node that has no folder in the legacy repository.
OtherUuid == "00000000-0000-0000-0000-000000000000"
\* The node records: the node of the first identity folder and a node without
\* folder; the node of any other identity folder has been deleted.
DbNodeUuids == {Uuid(GoodShards(1)), OtherUuid}

\* The migration does not run: its variables are as before it, and `pc` names
\* the function that is called instead.
MigrationAtRest(function) ==
    /\ legacy_is_dir = FALSE
    /\ legacy = <<>>
    /\ container_is_initialised = FALSE
    /\ container_objects = {}
    /\ db = [u \in DbNodeUuids |-> <<>>]
    /\ db_writes = <<>>
    /\ backend = "none"
    /\ pc = function
    /\ raised = "none"
    /\ warnings = <<>>
    /\ shard_i = 1
    /\ mapping = EmptyDict
    /\ path = Unbound
    /\ node_i = 1
    /\ repository = EmptyRepository
    /\ mapping_metadata = EmptyDict
    /\ filepaths = <<>>
    /\ streams = <<>>
    /\ pack_calls = <<>>
    /\ hashkeys = <<>>
    /\ zip_i = 1
    /\ result = NoResult
    /\ apply_i = 1

\* deduplicate_uuids is not called.
DeduplicateAtRest ==
    /\ dedup_rows = <<>>
    /\ dedup_folders = <<>>
    /\ duplicates = <<>>
    /\ dedup_i = 1
    /\ mapping_new_uuid = <<>>
    /\ messages = <<>>

\* No method of the links is called.
LinksAtRest ==
    /\ to_be_stored = TRUE
    /\ inputlinks_cache = {}
    /\ link_call = <<>>

\* AbstractNode.set is not called.
SetAtRest ==
    /\ set_incompatibilities = <<>>
    /\ arguments = <<>>
    /\ set_attributes = <<>>
    /\ set_i = 1
    /\ set_calls = <<>>

\* get_unique_filename is not called.
UniqueFilenameAtRest ==
    /\ filename = <<>>
    /\ list_of_filenames = <<>>
    /\ append_int = 0
    /\ new_filename = Unbound
    /\ unique_filename = Unbound

Init ==
    /\ legacy_is_dir \in BOOLEAN
    /\ legacy \in (IF legacy_is_dir THEN LegacyFolders ELSE {<<>>})
    /\ container_is_initialised \in BOOLEAN
    /\ container_objects = {}
    /\ db = [u \in DbNodeUuids |-> <<>>]
    /\ db_writes = <<>>
    /\ backend = "none"
    /\ pc = "idle"
    /\ raised = "none"
    /\ warnings = <<>>
    /\ shard_i = 1
    /\ mapping = EmptyDict
    /\ path = Unbound
    /\ node_i = 1
    /\ repository = EmptyRepository
    /\ mapping_metadata = EmptyDict
    /\ filepaths = <<>>
    /\ streams = <<>>
    /\ pack_calls = <<>>
    /\ hashkeys = <<>>
    /\ zip_i = 1
    /\ result = NoResult
    /\ apply_i = 1
    /\ lazyfile_args = NoArgs
    /\ lazyfile = NotConstructed
    /\ UniqueFilenameAtRest
    /\ SetAtRest
    /\ LinksAtRest
    /\ DeduplicateAtRest

Raise(exc) == raised' = exc /\ pc' = "raised"

(***************************************************************************)
(* The backend migration steps, up to the call of the migration.           *)
(***************************************************************************)
\* Django, migrate_repository: utils.migrate_legacy_repository(node_count) passes an
\* argument to a function that takes none.
DjangoMigrateRepository ==
    /\ pc = "idle"
    /\ backend' = "django"
    /\ Raise("TypeError")
    /\ UNCHANGED <<library_vars, environment, scan_vars, build_vars, pack_vars, db_vars, warnings, zip_i, result>>

\* SQLAlchemy, upgrade: utils.migrate_legacy_repository()
SqlaUpgrade ==
    /\ pc = "idle"
    /\ backend' = "sqlalchemy"
    /\ pc' = "container"
    /\ UNCHANGED <<library_vars, environment, scan_vars, build_vars, pack_vars, db_vars, warnings, zip_i, result,
                   raised>>

(***************************************************************************)
(* migrate_legacy_repository                                               *)
(***************************************************************************)
\* if not container.is_initialised: raise RuntimeError(...)
MigrateCheckContainer ==
    /\ pc = "container"
    /\ IF ~container_is_initialised
       THEN Raise("RuntimeError")
       ELSE pc' = "basepath" /\ UNCHANGED raised
    /\ UNCHANGED <<library_vars, environment, scan_vars, build_vars, pack_vars, db_vars, warnings, zip_i, result,
                   backend>>

\* if not basepath.is_dir(): echo_warning(...); return
MigrateCheckBasepath ==
    /\ pc = "basepath"
    /\ IF ~legacy_is_dir
       THEN /\ warnings' = Append(warnings, [kind |-> "nothing to migrate", path |-> Basepath])
            /\ result' = ResultNone
            /\ pc' = "returned"
       ELSE /\ pc' = "scan"
            /\ UNCHANGED <<warnings, result>>
    /\ UNCHANGED <<library_vars, environment, scan_vars, build_vars, pack_vars, db_vars, zip_i, backend, raised>>

(***************************************************************************)
(* get_node_repository_dirpaths(basepath)                                  *)
(***************************************************************************)
\* What the three nested loops do with the folder they are at: `skip` when a
\* shard name does not match (continue), else the uuid, the dirpath and the names
\* of the entries of the dirpath.
ScanFolder(fs, i) ==
    LET shard_one == Basepath \o <<fs[i].shards[1]>>
        shard_two == shard_one \o <<fs[i].shards[2]>>
        shard_three == shard_two \o <<fs[i].shards[3]>>
        dirpath == PathJoin(PathJoin(PathJoin(Basepath, shard_one), shard_two), shard_three)
    IN  [skip |-> \/ ~REGEX_SHARD_SUB_LEVEL(PathName(shard_one))
                  \/ ~REGEX_SHARD_SUB_LEVEL(PathName(shard_two))
                  \/ ~REGEX_SHARD_FINAL_LEVEL(PathName(shard_three)),
         uuid |-> PathName(shard_one) \o PathName(shard_two) \o PathName(shard_three),
         dirpath |-> dirpath,
         subdirs |-> DOMAIN EntryAt(fs, dirpath).entries]

\* Mutant: `raw_input` is looked for before `path`.
ChosenPathRawInputFirst(scan, old_path) ==
    IF \E s \in scan.subdirs : s = "raw_input" THEN scan.dirpath \o <<"raw_input">>
    ELSE IF \E s \in scan.subdirs : s = "path" THEN scan.dirpath \o <<"path">>
    ELSE old_path

\* The value of the local variable `path` after the if/elif/else on subdirs; in
\* the else branch it keeps the value it had.
ChosenPath(scan, old_path) ==
    IF \E s \in scan.subdirs : s = "path" THEN scan.dirpath \o <<"path">>
    ELSE IF \E s \in scan.subdirs : s = "raw_input" THEN scan.dirpath \o <<"raw_input">>
    ELSE old_path

\* Whether the else branch (a warning) is taken.
MissingSubfolder(scan) == \A s \in scan.subdirs : s # "path" /\ s # "raw_input"

\* One iteration of the innermost loop.
ScanShard ==
    /\ pc = "scan"
    /\ shard_i <= Len(legacy)
    /\ LET scan == ScanFolder(legacy, shard_i)
       IN  IF scan.skip
           THEN /\ shard_i' = shard_i + 1
                /\ UNCHANGED <<mapping, path, warnings, pc, raised>>
           ELSE /\ path' = ChosenPath(scan, path)
                /\ warnings' = IF MissingSubfolder(scan)
                               THEN Append(warnings, [kind |-> "skipping", path |-> scan.dirpath])
                               ELSE warnings
                   \* mapping[uuid] = path: an unassigned `path` is an UnboundLocalError
                /\ IF path' = Unbound
                   THEN Raise("UnboundLocalError") /\ UNCHANGED <<mapping, shard_i>>
                   ELSE /\ mapping' = DictSet(mapping, scan.uuid, path')
                        /\ shard_i' = shard_i + 1
                        /\ UNCHANGED <<pc, raised>>
    /\ UNCHANGED <<library_vars, environment, build_vars, pack_vars, db_vars, zip_i, result, backend>>

\* return mapping; node_repository_dirpaths = get_node_repository_dirpaths(basepath)
ScanReturn ==
    /\ pc = "scan"
    /\ shard_i > Len(legacy)
    /\ pc' = "build"
    /\ UNCHANGED <<library_vars, environment, scan_vars, build_vars, pack_vars, db_vars, warnings, zip_i, result,
                   backend, raised>>

(***************************************************************************)
(* The build loop: for node_uuid, node_dirpath in node_repository_dirpaths *)
(***************************************************************************)
BuildNode ==
    /\ pc = "build"
    /\ node_i <= Len(mapping.keys)
    /\ LET node_uuid == mapping.keys[node_i]
           node_dirpath == mapping.val[node_uuid]
           tree == PutObjectFromTree(repository, legacy, node_dirpath)
       IN  IF IsRaised(tree)
           THEN /\ Raise(tree.raised)
                /\ UNCHANGED <<repository, mapping_metadata, filepaths, streams>>
           ELSE LET metadata == SerializeRepository(tree)
                    found == WalkFilepaths(Walk(tree, <<>>), node_uuid)
                IN  /\ repository' = tree
                    /\ mapping_metadata' = DictSet(mapping_metadata, node_uuid, metadata)
                    /\ filepaths' = filepaths \o found
                    /\ streams' = streams \o WalkStreams(found, metadata)
                    /\ pc' = "reset"
                    /\ UNCHANGED raised
    /\ UNCHANGED <<library_vars, environment, scan_vars, node_i, pack_vars, db_vars, warnings, zip_i, result,
                   backend>>

\* Mutant: the repository is not reset.
BuildResetKeepsTree ==
    /\ pc = "reset"
    /\ node_i' = node_i + 1
    /\ pc' = "build"
    /\ UNCHANGED <<library_vars, environment, scan_vars, repository, mapping_metadata, filepaths,
                   streams, pack_vars, db_vars, warnings, zip_i, result, backend, raised>>

\* Mutant: resetting the repository removes the `path` folder of the first
\* identity folder.
BuildResetRemovesFolder ==
    /\ pc = "reset"
    /\ repository' = EmptyRepository
    /\ node_i' = node_i + 1
    /\ pc' = "build"
    /\ legacy' = [legacy EXCEPT ![1].path = NoDir]
    /\ UNCHANGED <<library_vars, legacy_is_dir, container_is_initialised, scan_vars, mapping_metadata, filepaths,
                   streams, pack_vars, db_vars, warnings, zip_i, result, backend, raised>>

\* repository.reset()
BuildReset ==
    /\ pc = "reset"
    /\ repository' = EmptyRepository
    /\ node_i' = node_i + 1
    /\ pc' = "build"
    /\ UNCHANGED <<library_vars, environment, scan_vars, mapping_metadata, filepaths, streams, pack_vars, db_vars,
                   warnings, zip_i, result, backend, raised>>

(***************************************************************************)
(* hashkeys = container.add_streamed_objects_to_pack(streams, compress=True,*)
(*                                                   open_streams=True)    *)
(***************************************************************************)
PackCall == [streams |-> streams, compress |-> TRUE, open_streams |-> TRUE]

\* The keys of the first n streams, in the order of the streams.
KeysOf(fs, ss, n) == [i \in 1..n |-> HashKey(ReadStream(fs, ss[i]))]
Range(s) == {s[i] : i \in DOMAIN s}

\* Every stream is opened, read and closed in turn.
PackStreams ==
    /\ pc = "build"
    /\ node_i > Len(mapping.keys)
    /\ pack_calls' = Append(pack_calls, PackCall)
    /\ hashkeys' = KeysOf(legacy, streams, Len(streams))
    /\ container_objects' = container_objects \cup Range(hashkeys')
    /\ pc' = "regroup"
    /\ UNCHANGED <<library_vars, environment, scan_vars, build_vars, db_vars, warnings, zip_i, result, backend,
                   raised>>

\* Mutant: the failure of a stream is swallowed and the keys of the streams
\* before it are used.
PackFailsSwallowed ==
    /\ pc = "build"
    /\ node_i > Len(mapping.keys)
    /\ \E bad \in 1..Len(streams) :
          /\ hashkeys' = KeysOf(legacy, streams, bad - 1)
          /\ container_objects' = container_objects \cup Range(hashkeys')
    /\ pack_calls' = Append(pack_calls, PackCall)
    /\ raised' = "OSError"
    /\ pc' = "regroup"
    /\ UNCHANGED <<library_vars, environment, scan_vars, build_vars, db_vars, warnings, zip_i, result, backend>>

\* A stream cannot be opened or read: the objects before it are in the store,
\* the call raises.
PackFails ==
    /\ pc = "build"
    /\ node_i > Len(mapping.keys)
    /\ \E bad \in 1..Len(streams) :
          container_objects' = container_objects \cup Range(KeysOf(legacy, streams, bad - 1))
    /\ pack_calls' = Append(pack_calls, PackCall)
    /\ Raise("OSError")
    /\ UNCHANGED <<library_vars, environment, scan_vars, build_vars, hashkeys, db_vars, warnings, zip_i, result,
                   backend>>

(***************************************************************************)
(* Regroup by node UUID: for hashkey, (node_uuid, parts) in zip(...)       *)
(***************************************************************************)
Min(a, b) == IF a <= b THEN a ELSE b
\* Mutant: the regroup loop stops one pair early.
ZipLenShort == Min(Len(hashkeys), Len(filepaths)) - 1
\* The number of pairs of zip(hashkeys, filepaths).
ZipLen == Min(Len(hashkeys), Len(filepaths))
ButLast(s) == SubSeq(s, 1, Len(s) - 1)
\* Mutant: the keys are paired with the filepaths from the wrong end.
ZipHashkeyReversed(i) == hashkeys[Len(hashkeys) + 1 - i]
\* The hashkey that zip(hashkeys, filepaths) pairs with filepaths[i].
ZipHashkey(i) == hashkeys[i]

Regroup ==
    /\ pc = "regroup"
    /\ zip_i <= ZipLen
    /\ LET hashkey == ZipHashkey(zip_i)
           node_uuid == filepaths[zip_i][1]
           parts == filepaths[zip_i][2]
           repository_metadata == mapping_metadata.val[node_uuid]
       IN  \* filename = parts.pop() shortens the list held in filepaths
           /\ filepaths' = [filepaths EXCEPT ![zip_i] = <<node_uuid, ButLast(parts)>>]
           /\ mapping_metadata' =
                 DictSet(mapping_metadata, node_uuid,
                         RegroupDocument(repository_metadata, parts, hashkey))
    /\ zip_i' = zip_i + 1
    /\ UNCHANGED <<library_vars, environment, scan_vars, node_i, repository, streams, pack_vars, db_vars, warnings,
                   result, backend, pc, raised>>

\* Mutant: the migration returns None where it has a mapping.
MigrateReturnsNone ==
    /\ pc = "regroup"
    /\ zip_i > ZipLen
    /\ result' = ResultNone
    /\ pc' = "returned"
    /\ UNCHANGED <<library_vars, environment, scan_vars, build_vars, pack_vars, db_vars, warnings, zip_i, backend,
                   raised>>

\* return mapping_metadata
MigrateReturn ==
    /\ pc = "regroup"
    /\ zip_i > ZipLen
    /\ result' = ResultDict(mapping_metadata)
    /\ pc' = "returned"
    /\ UNCHANGED <<library_vars, environment, scan_vars, build_vars, pack_vars, db_vars, warnings, zip_i, backend,
                   raised>>

(***************************************************************************)
(* SQLAlchemy, upgrade: after the call.                                    *)
(***************************************************************************)
\* if mapping_node_repository_metadata is None: return
SqlaNothingToMigrate ==
    /\ pc = "returned"
    /\ backend = "sqlalchemy"
    /\ result = ResultNone
    /\ pc' = "done"
    /\ UNCHANGED <<library_vars, environment, scan_vars, build_vars, pack_vars, db_vars, warnings, zip_i, result,
                   backend, raised>>

\* Mutant: the update has no where clause.
SqlaUpdateAll ==
    /\ pc = "returned"
    /\ backend = "sqlalchemy"
    /\ result.kind = "dict"
    /\ apply_i <= Len(result.value.keys)
    /\ LET node_uuid == result.value.keys[apply_i]
           repository_metadata == result.value.val[node_uuid]
       IN  /\ db' = [u \in DOMAIN db |-> repository_metadata]
           /\ db_writes' = Append(db_writes, node_uuid)
    /\ apply_i' = apply_i + 1
    /\ UNCHANGED <<library_vars, environment, scan_vars, build_vars, pack_vars, warnings, zip_i,
                   result, backend, pc, raised>>

\* connection.execute(DbNode.update().where(DbNode.c.uuid == node_uuid).values(...))
SqlaUpdate ==
    /\ pc = "returned"
    /\ backend = "sqlalchemy"
    /\ result.kind = "dict"
    /\ apply_i <= Len(result.value.keys)
    /\ LET node_uuid == result.value.keys[apply_i]
           repository_metadata == result.value.val[node_uuid]
       IN  IF HasKey(db, node_uuid)
           THEN /\ db' = [db EXCEPT ![node_uuid] = repository_metadata]
                /\ db_writes' = Append(db_writes, node_uuid)
           ELSE UNCHANGED <<db, db_writes>>
    /\ apply_i' = apply_i + 1
    /\ UNCHANGED <<library_vars, environment, scan_vars, build_vars, pack_vars, warnings, zip_i, result, backend,
                   pc, raised>>

SqlaDone ==
    /\ pc = "returned"
    /\ backend = "sqlalchemy"
    /\ result.kind = "dict"
    /\ apply_i > Len(result.value.keys)
    /\ pc' = "done"
    /\ UNCHANGED <<library_vars, environment, scan_vars, build_vars, pack_vars, db_vars, warnings, zip_i, result,
                   backend, raised>>

Next ==
    \/ DjangoMigrateRepository
    \/ SqlaUpgrade
    \/ MigrateCheckContainer
    \/ MigrateCheckBasepath
    \/ ScanShard
    \/ ScanReturn
    \/ BuildNode
    \/ BuildReset
    \/ PackStreams
    \/ PackFails
    \/ Regroup
    \/ MigrateReturn
    \/ SqlaNothingToMigrate
    \/ SqlaUpdate
    \/ SqlaDone

Spec == Init /\ [][Next]_vars

(***************************************************************************)
(* LazyFile.__init__ on its own: a call with arguments of every kind.      *)
(***************************************************************************)
\* The values given for `name`: strings, and None.
NameValues == {PyStr(""), PyStr("a"), None}
\* The values given for `file_type`: the members of FileType, and a string.
FileTypeValues == FileType \cup {"not a FileType"}
\* The values given for `key`.
KeyValues == {None, PyStr("key"), LazyOpener(Basepath \o <<"a">>), PyInt(0)}
\* The values given for `objects`: None, an empty dictionary, a dictionary of
\* LazyFile objects, a dictionary with a value that is no LazyFile.
ObjectsValues ==
    {None, NoObjects,
     [a |-> LazyFile(PyStr("a"), "FILE", PyStr("key"), None)],
     [a |-> LazyFile(PyStr("a"), "DIRECTORY", None, None),
      b |-> LazyFile(PyStr("b"), "FILE", LazyOpener(Basepath \o <<"b">>), None)],
     [a |-> PyStr("a")]}
LazyFileArgs ==
    [name : NameValues, file_type : FileTypeValues, key : KeyValues, objects : ObjectsValues]

InitLazyFile ==
    /\ legacy_is_dir = FALSE
    /\ legacy = <<>>
    /\ container_is_initialised = FALSE
    /\ container_objects = {}
    /\ db = [u \in DbNodeUuids |-> <<>>]
    /\ db_writes = <<>>
    /\ backend = "none"
    /\ pc = "LazyFile"
    /\ raised = "none"
    /\ warnings = <<>>
    /\ shard_i = 1
    /\ mapping = EmptyDict
    /\ path = Unbound
    /\ node_i = 1
    /\ repository = EmptyRepository
    /\ mapping_metadata = EmptyDict
    /\ filepaths = <<>>
    /\ streams = <<>>
    /\ pack_calls = <<>>
    /\ hashkeys = <<>>
    /\ zip_i = 1
    /\ result = NoResult
    /\ apply_i = 1
    /\ lazyfile_args \in LazyFileArgs
    /\ lazyfile = NotConstructed
    /\ UniqueFilenameAtRest
    /\ SetAtRest
    /\ LinksAtRest
    /\ DeduplicateAtRest

\* LazyFile(name, file_type, key, objects)
ConstructLazyFile ==
    /\ pc = "LazyFile"
    /\ lazyfile = NotConstructed
    /\ lazyfile' = LazyFile(lazyfile_args.name, lazyfile_args.file_type, lazyfile_args.key,
                            lazyfile_args.objects)
    /\ UNCHANGED <<lazyfile_args, unique_vars, set_vars, link_vars, dedup_vars, environment, scan_vars, build_vars, pack_vars,
                   db_vars, warnings, zip_i, result, backend, pc, raised>>

SpecLazyFile == InitLazyFile /\ [][ConstructLazyFile]_vars

(***************************************************************************)
(* aiida.common.utils.get_unique_filename on its own.  File names are      *)
(* sequences of characters.                                                *)
(***************************************************************************)
\* p.rfind(c): the last index of the character in the name, 0 if there is none.
RFind(p, c) ==
    IF \E i \in 1..Len(p) : p[i] = c
    THEN CHOOSE i \in 1..Len(p) : p[i] = c /\ \A j \in (i + 1)..Len(p) : p[j] # c
    ELSE 0

\* os.path.splitext(p): the name is split at its last dot, unless only dots
\* stand between the last separator and that dot.
Splitext(p) ==
    LET sepIndex == RFind(p, "/")
        dotIndex == RFind(p, ".")
    IN  IF dotIndex > sepIndex /\ \E i \in (sepIndex + 1)..(dotIndex - 1) : p[i] # "."
        THEN <<SubSeq(p, 1, dotIndex - 1), SubSeq(p, dotIndex, Len(p))>>
        ELSE <<p, <<>>>>

DigitChar == <<"0", "1", "2", "3", "4", "5", "6", "7", "8", "9">>

RECURSIVE FormatD(_)
\* "{:d}".format(n) for n >= 0.
FormatD(n) ==
    IF n < 10 THEN <<DigitChar[n + 1]>>
    ELSE FormatD(n \div 10) \o <<DigitChar[(n % 10) + 1]>>

\* "{:s}-{:d}{:s}".format(basename, append_int, ext)
FormatNewFilename(basename, n, ext) == basename \o <<"-">> \o FormatD(n) \o ext

\* The file names asked for.
Filenames == {<<"a", ".", "t">>, <<"a">>, <<".", "t">>, <<"a", "/", "b", ".", "t">>}
\* The names the lists are made of.
ListNames ==
    Filenames \cup {<<"a", "-", "1", ".", "t">>, <<"a", "-", "2", ".", "t">>, <<"a", "-", "1">>,
                    <<".", "t", "-", "1">>, <<"a", "/", "b", "-", "1", ".", "t">>}

RECURSIVE ListsUpTo(_, _)
\* The lists of at most n elements of S.
ListsUpTo(S, n) ==
    IF n = 0 THEN {<<>>}
    ELSE LET shorter == ListsUpTo(S, n - 1)
         IN  shorter \cup {Append(l, x) : l \in shorter, x \in S}

InitGetUniqueFilename ==
    /\ MigrationAtRest("get_unique_filename")
    /\ lazyfile_args = NoArgs
    /\ lazyfile = NotConstructed
    /\ SetAtRest
    /\ LinksAtRest
    /\ DeduplicateAtRest
    /\ filename \in Filenames
    /\ list_of_filenames \in ListsUpTo(ListNames, MaxListOfFilenames)
    /\ append_int = 0
    /\ new_filename = Unbound
    /\ unique_filename = Unbound

\* if filename not in list_of_filenames: return filename;  else the loop is entered
UniqueFilenameCheck ==
    /\ pc = "get_unique_filename"
    /\ IF filename \notin Range(list_of_filenames)
       THEN /\ unique_filename' = filename
            /\ pc' = "unique_returned"
            /\ UNCHANGED append_int
       ELSE /\ append_int' = 1
            /\ pc' = "unique_while"
            /\ UNCHANGED unique_filename
    /\ UNCHANGED <<lazyfile_vars, set_vars, link_vars, dedup_vars, filename, list_of_filenames, new_filename, environment, scan_vars,
                   build_vars, pack_vars, db_vars, warnings, zip_i, result, backend, raised>>

\* Mutant: the first candidate is returned without looking into the list.
UniqueFilenameWhileFirst ==
    /\ pc = "unique_while"
    /\ new_filename' = FormatNewFilename(Splitext(filename)[1], append_int, Splitext(filename)[2])
    /\ unique_filename' = new_filename'
    /\ pc' = "unique_returned"
    /\ UNCHANGED <<lazyfile_vars, set_vars, link_vars, dedup_vars, filename, list_of_filenames, append_int, environment, scan_vars,
                   build_vars, pack_vars, db_vars, warnings, zip_i, result, backend, raised>>

\* One iteration of `while True`, and the return that follows the break.
UniqueFilenameWhile ==
    /\ pc = "unique_while"
    /\ LET basename == Splitext(filename)[1]
           ext == Splitext(filename)[2]
       IN  new_filename' = FormatNewFilename(basename, append_int, ext)
    /\ IF new_filename' \notin Range(list_of_filenames)
       THEN /\ unique_filename' = new_filename'
            /\ pc' = "unique_returned"
            /\ UNCHANGED append_int
       ELSE /\ append_int' = append_int + 1
            /\ UNCHANGED <<pc, unique_filename>>
    /\ UNCHANGED <<lazyfile_vars, set_vars, link_vars, dedup_vars, filename, list_of_filenames, environment, scan_vars,
                   build_vars, pack_vars, db_vars, warnings, zip_i, result, backend, raised>>

NextGetUniqueFilename == UniqueFilenameCheck \/ UniqueFilenameWhile

\* The function runs to its end: a step that can be taken is taken.
SpecGetUniqueFilename ==
    InitGetUniqueFilename /\ [][NextGetUniqueFilename]_vars /\ WF_vars(NextGetUniqueFilename)

(***************************************************************************)
(* AbstractNode.set with keyword arguments: _set_internal(kwargs, False).  *)
(***************************************************************************)
\* The keys given, and the keys the class speaks of.
SetKeys == {"a", "b", "c"}

\* The lists without repetition of elements of S.
RECURSIVE Orderings(_)
Orderings(S) ==
    IF S = {} THEN {<<>>}
    ELSE UNION {{<<x>> \o l : l \in Orderings(S \ {x})} : x \in S}

\* The values given for the class attribute _set_incompatibilities.
SetIncompatibilitiesValues ==
    {<<>>, <<<<"a", "b">>>>, <<<<"a">>>>, <<<<"a", "b", "c">>>>, <<<<"a", "b">>, <<"c">>>>,
     <<<<"c">>, <<"b", "a">>>>}

\* What getattr(self, 'set_k') finds: a method, an attribute that is not
\* callable, or nothing.
SetAttributeValues == {"method", "not callable", "missing"}

InitSet ==
    /\ MigrationAtRest("set")
    /\ lazyfile_args = NoArgs
    /\ lazyfile = NotConstructed
    /\ UniqueFilenameAtRest
    /\ LinksAtRest
    /\ DeduplicateAtRest
    /\ set_incompatibilities \in SetIncompatibilitiesValues
    /\ arguments \in UNION {Orderings(S) : S \in SUBSET SetKeys}
    /\ set_attributes \in [SetKeys -> SetAttributeValues]
    /\ set_i = 1
    /\ set_calls = <<>>

\* all(k in arguments.keys() for k in incomp)
AllInArguments(incomp) == \A j \in 1..Len(incomp) : incomp[j] \in Range(arguments)

\* Mutant: the incompatibilities are not looked at.
SetIncompatibilitiesIgnored ==
    /\ pc = "set"
    /\ pc' = "set_loop"
    /\ UNCHANGED <<lazyfile_vars, unique_vars, link_vars, dedup_vars, set_incompatibilities, arguments, set_attributes,
                   set_i, set_calls, environment, scan_vars, build_vars, pack_vars, db_vars,
                   warnings, zip_i, result, backend, raised>>

\* for incomp in self._set_incompatibilities: ... raise ValueError
SetIncompatibilities ==
    /\ pc = "set"
    /\ IF \E i \in 1..Len(set_incompatibilities) : AllInArguments(set_incompatibilities[i])
       THEN Raise("ValueError")
       ELSE pc' = "set_loop" /\ UNCHANGED raised
    /\ UNCHANGED <<lazyfile_vars, unique_vars, link_vars, dedup_vars, set_incompatibilities, arguments, set_attributes,
                   set_i, set_calls, environment, scan_vars, build_vars, pack_vars, db_vars,
                   warnings, zip_i, result, backend>>

\* One iteration of `for k, v in arguments.iteritems()`.
SetCallMethod ==
    /\ pc = "set_loop"
    /\ set_i <= Len(arguments)
    /\ LET k == arguments[set_i]
       IN  IF set_attributes[k] = "method"
           THEN /\ set_calls' = Append(set_calls, k)
                /\ set_i' = set_i + 1
                /\ UNCHANGED <<pc, raised>>
           ELSE /\ Raise("ValueError")
                /\ UNCHANGED <<set_calls, set_i>>
    /\ UNCHANGED <<lazyfile_vars, unique_vars, link_vars, dedup_vars, set_incompatibilities, arguments, set_attributes,
                   environment, scan_vars, build_vars, pack_vars, db_vars, warnings, zip_i,
                   result, backend>>

\* The loop is over and set returns.
SetReturn ==
    /\ pc = "set_loop"
    /\ set_i > Len(arguments)
    /\ pc' = "set_returned"
    /\ UNCHANGED <<lazyfile_vars, unique_vars, link_vars, dedup_vars, set_incompatibilities, arguments, set_attributes,
                   set_i, set_calls, environment, scan_vars, build_vars, pack_vars, db_vars,
                   warnings, zip_i, result, backend, raised>>

NextSet == SetIncompatibilities \/ SetCallMethod \/ SetReturn

SpecSet == InitSet /\ [][NextSet]_vars

(***************************************************************************)
(* The cache of input links of a node (AbstractNode._inputlinks_cache)     *)
(* under _add_link_from, _replace_link_from and _remove_link_from.  The    *)
(* cache is a dictionary from labels to source nodes, held as the set of   *)
(* its items.                                                              *)
(***************************************************************************)
\* The source nodes: two instances of one unstored node, a stored node and
\* another unstored node.
LinkSources ==
    {[uuid |-> "u1", to_be_stored |-> TRUE, instance |-> 1],
     [uuid |-> "u1", to_be_stored |-> TRUE, instance |-> 2],
     [uuid |-> "u2", to_be_stored |-> FALSE, instance |-> 1],
     [uuid |-> "u3", to_be_stored |-> TRUE, instance |-> 1]}

\* The labels given: strings, and None.
LinkLabels == {PyStr("a"), PyStr("b"), None}

\* What the methods of the backend that write links to the database do: they
\* return, or they raise.
DbLinkOutcomes == {"none", "UniquenessError"}

\* label in self._inputlinks_cache
InCache(cache, label) == \E e \in cache : e[1] = label
\* self._inputlinks_cache[label] = src
CacheSet(cache, label, src) == {e \in cache : e[1] # label} \cup {<<label, src>>}
\* del self._inputlinks_cache[label], a KeyError being passed over
CacheDel(cache, label) == {e \in cache : e[1] # label}

\* No method has been called yet.
NoLinkCall ==
    [method |-> "none", src |-> [uuid |-> "", to_be_stored |-> TRUE, instance |-> 0],
     label |-> None, raised |-> "none", del |-> "none"]

LinkCall(method, src, label, exc, del) ==
    [method |-> method, src |-> src, label |-> label, raised |-> exc, del |-> del]

InitLinks ==
    /\ MigrationAtRest("links")
    /\ lazyfile_args = NoArgs
    /\ lazyfile = NotConstructed
    /\ UniqueFilenameAtRest
    /\ SetAtRest
    /\ DeduplicateAtRest
    /\ to_be_stored \in BOOLEAN
    /\ inputlinks_cache = {}
    /\ link_call = NoLinkCall

\* What is left unchanged by the methods of the links.
LinksFrame ==
    UNCHANGED <<lazyfile_vars, unique_vars, set_vars, dedup_vars, to_be_stored, environment, scan_vars,
                build_vars, pack_vars, db_vars, warnings, zip_i, result, backend, pc, raised>>

\* _add_cachelink_from(src, label)
AddCachelinkFrom(src, label) ==
    IF label = None
    THEN /\ link_call' = LinkCall("_add_link_from", src, label, "ModificationNotAllowed", "none")
         /\ UNCHANGED inputlinks_cache
    ELSE IF InCache(inputlinks_cache, label)
    THEN /\ link_call' = LinkCall("_add_link_from", src, label, "UniquenessError", "none")
         /\ UNCHANGED inputlinks_cache
    ELSE /\ inputlinks_cache' = CacheSet(inputlinks_cache, label, src)
         /\ link_call' = LinkCall("_add_link_from", src, label, "none", "none")

\* _add_link_from(src, label)
AddLinkFrom ==
    /\ pc = "links"
    /\ \E src \in LinkSources, label \in LinkLabels :
          IF InCache(inputlinks_cache, label)
          THEN /\ link_call' = LinkCall("_add_link_from", src, label, "UniquenessError", "none")
               /\ UNCHANGED inputlinks_cache
          ELSE IF src.uuid \in {e[2].uuid : e \in inputlinks_cache}
          THEN /\ link_call' = LinkCall("_add_link_from", src, label, "UniquenessError", "none")
               /\ UNCHANGED inputlinks_cache
          ELSE IF ~to_be_stored /\ ~src.to_be_stored
          THEN /\ \E exc \in DbLinkOutcomes :
                     link_call' = LinkCall("_add_link_from", src, label, exc, "none")
               /\ UNCHANGED inputlinks_cache
          ELSE AddCachelinkFrom(src, label)
    /\ LinksFrame

\* Mutant: the sources of the other labels are not looked at.
ReplaceLinkFromUnchecked ==
    /\ pc = "links"
    /\ \E src \in LinkSources, label \in LinkLabels :
          /\ inputlinks_cache' = CacheSet(inputlinks_cache, label, src)
          /\ link_call' = LinkCall("_replace_link_from", src, label, "none", "none")
    /\ LinksFrame

\* _replace_link_from(src, label)
ReplaceLinkFrom ==
    /\ pc = "links"
    /\ \E src \in LinkSources, label \in LinkLabels :
          IF ~to_be_stored /\ ~src.to_be_stored
          THEN \E exc \in DbLinkOutcomes :
                  IF exc # "none"
                  THEN /\ link_call' = LinkCall("_replace_link_from", src, label, exc, "none")
                       /\ UNCHANGED inputlinks_cache
                  ELSE /\ inputlinks_cache' = CacheDel(inputlinks_cache, label)
                       /\ link_call' = LinkCall("_replace_link_from", src, label, "none",
                                                IF InCache(inputlinks_cache, label)
                                                THEN "deleted" ELSE "KeyError")
          ELSE IF src.uuid \in {e[2].uuid : e \in {c \in inputlinks_cache : c[1] # label}}
          THEN /\ link_call' = LinkCall("_replace_link_from", src, label, "UniquenessError", "none")
               /\ UNCHANGED inputlinks_cache
          ELSE /\ inputlinks_cache' = CacheSet(inputlinks_cache, label, src)
               /\ link_call' = LinkCall("_replace_link_from", src, label, "none", "none")
    /\ LinksFrame

\* _remove_link_from(label)
RemoveLinkFrom ==
    /\ pc = "links"
    /\ \E label \in LinkLabels :
          /\ inputlinks_cache' = CacheDel(inputlinks_cache, label)
          /\ link_call' = LinkCall("_remove_link_from", NoLinkCall.src, label, "none",
                                   IF InCache(inputlinks_cache, label)
                                   THEN "deleted" ELSE "KeyError")
    /\ LinksFrame

NextLinks == AddLinkFrom \/ ReplaceLinkFrom \/ RemoveLinkFrom

SpecLinks == InitLinks /\ [][NextLinks]_vars

(***************************************************************************)
(* deduplicate_uuids(table) on its own.  The table is a function from pk   *)
(* to UUID; the repository holds for some UUIDs a folder, given by the     *)
(* names of the files in it.                                               *)
(***************************************************************************)
\* The UUIDs of the rows before the call, and those get_new_uuid() can give.
RowUuids == {"x", "y"}
FreshUuids == {"n1", "n2", "n3", "n4"}

\* The repositories: for every set of UUIDs that have a folder, a folder
\* that is empty or holds one file.
RepositoryFolders ==
    UNION {[S -> {{}, {"file"}}] : S \in SUBSET RowUuids}

\* backend.query_manager.get_duplicate_uuids(table): the (pk, uuid) of the
\* rows whose UUID another row has as well, in any order.
GetDuplicateUuids(rows) ==
    Orderings({<<pk, rows[pk]>> : pk \in {p \in DOMAIN rows :
                                           \E q \in DOMAIN rows : q # p /\ rows[q] = rows[p]}})

RECURSIVE MappingKeys(_)
\* The keys of `mapping` in the order they were inserted: the UUIDs of the
\* duplicates in the order of their first row.
MappingKeys(dups) ==
    IF dups = <<>> THEN <<>>
    ELSE LET before == MappingKeys(ButLast(dups))
             uuid == dups[Len(dups)][2]
         IN  IF uuid \in Range(before) THEN before ELSE Append(before, uuid)

RECURSIVE MappingRows(_, _)
\* mapping[uuid]: the pks of the rows of that UUID, in the order of the query.
MappingRows(dups, uuid) ==
    IF dups = <<>> THEN <<>>
    ELSE IF dups[1][2] = uuid THEN <<dups[1][1]>> \o MappingRows(Tail(dups), uuid)
    ELSE MappingRows(Tail(dups), uuid)

RECURSIVE MappingItems(_, _)
\* The (uuid, pk, position of pk in mapping[uuid]) the two loops go through.
MappingItems(dups, keys) ==
    IF keys = <<>> THEN <<>>
    ELSE LET rows == MappingRows(dups, keys[1])
         IN  [j \in 1..Len(rows) |-> <<keys[1], rows[j], j>>]
                 \o MappingItems(dups, Tail(keys))

\* The message of a row that got a new UUID, and the message of a table
\* without duplicates.
UpdatedMessage(pk, uuid_ref, uuid_new) ==
    [text |-> "updated UUID of row", pk |-> pk, from |-> uuid_ref, to |-> uuid_new]
NoDuplicatesMessage == [text |-> "no duplicate UUIDs found"]

InitDeduplicateUuids ==
    /\ MigrationAtRest("deduplicate_uuids")
    /\ lazyfile_args = NoArgs
    /\ lazyfile = NotConstructed
    /\ UniqueFilenameAtRest
    /\ SetAtRest
    /\ LinksAtRest
    /\ dedup_rows \in UNION {[1..n -> RowUuids] : n \in 1..MaxRows}
    /\ dedup_folders \in RepositoryFolders
    /\ duplicates = <<>>
    /\ dedup_i = 1
    /\ mapping_new_uuid = <<>>
    /\ messages = <<>>

\* What deduplicate_uuids leaves unchanged.
DeduplicateFrame ==
    UNCHANGED <<lazyfile_vars, unique_vars, set_vars, link_vars, environment, scan_vars,
                build_vars, pack_vars, db_vars, warnings, zip_i, result, backend>>

\* for pk, uuid in get_duplicate_uuids(table=table): mapping[uuid].append(int(pk))
DeduplicateQuery ==
    /\ pc = "deduplicate_uuids"
    /\ duplicates' \in GetDuplicateUuids(dedup_rows)
    /\ pc' = "dedup_loop"
    /\ UNCHANGED <<dedup_rows, dedup_folders, dedup_i, mapping_new_uuid, messages, raised>>
    /\ DeduplicateFrame

\* os.makedirs(dirpath_repo_new, exist_ok=True)
Makedirs(folders, uuid) ==
    IF HasKey(folders, uuid) THEN folders
    ELSE [u \in DOMAIN folders \cup {uuid} |-> IF u = uuid THEN {} ELSE folders[u]]

\* distutils.dir_util.copy_tree(src, dst) for a src that is a directory: the
\* files of src are written into dst.
CopyTree(folders, src, dst) == [folders EXCEPT ![dst] = folders[dst] \cup folders[src]]

\* One iteration of `for pk in rows` within `for uuid, rows in mapping.items()`.
DeduplicateRow ==
    /\ pc = "dedup_loop"
    /\ dedup_i <= Len(MappingItems(duplicates, MappingKeys(duplicates)))
    /\ LET item == MappingItems(duplicates, MappingKeys(duplicates))[dedup_i]
           uuid_ref == item[1]
           pk == item[2]
       IN  IF item[3] = 1
           THEN \* the first row keeps the UUID
                /\ dedup_i' = dedup_i + 1
                /\ UNCHANGED <<mapping_new_uuid, messages, dedup_folders, pc, raised>>
           ELSE \E uuid_new \in FreshUuids \ Range(mapping_new_uuid) :
                   /\ mapping_new_uuid' = [p \in DOMAIN mapping_new_uuid \cup {pk} |->
                                              IF p = pk THEN uuid_new ELSE mapping_new_uuid[p]]
                   /\ messages' = Append(messages, UpdatedMessage(pk, uuid_ref, uuid_new))
                   /\ IF HasKey(dedup_folders, uuid_ref)
                      THEN /\ dedup_folders' = CopyTree(Makedirs(dedup_folders, uuid_new),
                                                        uuid_ref, uuid_new)
                           /\ dedup_i' = dedup_i + 1
                           /\ UNCHANGED <<pc, raised>>
                      ELSE \* copy_tree: cannot copy tree, not a directory
                           /\ dedup_folders' = Makedirs(dedup_folders, uuid_new)
                           /\ Raise("DistutilsFileError")
                           /\ UNCHANGED dedup_i
    /\ UNCHANGED <<dedup_rows, duplicates>>
    /\ DeduplicateFrame

\* apply_new_uuid_mapping(table, mapping_new_uuid), and the return.
DeduplicateApply ==
    /\ pc = "dedup_loop"
    /\ dedup_i > Len(MappingItems(duplicates, MappingKeys(duplicates)))
    /\ dedup_rows' = [pk \in DOMAIN dedup_rows |->
                         IF pk \in DOMAIN mapping_new_uuid THEN mapping_new_uuid[pk]
                         ELSE dedup_rows[pk]]
    /\ messages' = IF messages = <<>> THEN <<NoDuplicatesMessage>> ELSE messages
    /\ pc' = "dedup_returned"
    /\ UNCHANGED <<dedup_folders, duplicates, dedup_i, mapping_new_uuid, raised>>
    /\ DeduplicateFrame

NextDeduplicateUuids == DeduplicateQuery \/ DeduplicateRow \/ DeduplicateApply

SpecDeduplicateUuids == InitDeduplicateUuids /\ [][NextDeduplicateUuids]_vars

(***************************************************************************)
(* What the claims speak of: the files and directories of a content        *)
(* folder, read from the legacy repository itself, and the leaves and      *)
(* directory nodes of a metadata document.                                 *)
(***************************************************************************)
RECURSIVE FilesBelow(_)
\* <<relative path parts, content>> of every regular file below directory d.
FilesBelow(d) ==
    UNION {IF d[n].type = "file"
           THEN {<<<<n>>, d[n].content>>}
           ELSE {<<<<n>> \o f[1], f[2]>> : f \in FilesBelow(d[n].entries)} : n \in DOMAIN d}

RECURSIVE DirsBelow(_)
\* The relative path parts of every subdirectory below directory d.
DirsBelow(d) ==
    UNION {IF d[n].type = "dir"
           THEN {<<n>>} \cup {<<n>> \o p : p \in DirsBelow(d[n].entries)}
           ELSE {} : n \in DOMAIN d}

RECURSIVE FilesInWalkOrder(_, _)
\* The absolute paths of the files below directory d, which lies at abspath: the
\* files of a directory before those of its subdirectories.
FilesInWalkOrder(d, abspath) ==
    LET here == SelectSeq(NameOrder, LAMBDA n : HasKey(d, n) /\ d[n].type = "file")
        subs == SelectSeq(NameOrder, LAMBDA n : HasKey(d, n) /\ d[n].type = "dir")
        RECURSIVE Below(_)
        Below(i) == IF i > Len(subs) THEN <<>>
                    ELSE FilesInWalkOrder(d[subs[i]].entries, abspath \o <<subs[i]>>)
                           \o Below(i + 1)
    IN  [i \in 1..Len(here) |-> abspath \o <<here[i]>>] \o Below(1)

RECURSIVE DocLeaves(_)
\* <<path parts, value of 'k'>> of every node with a 'k' entry below the document.
DocLeaves(doc) ==
    IF ~HasKey(doc, "o") THEN {}
    ELSE UNION {(IF HasKey(doc.o[n], "k") THEN {<<<<n>>, doc.o[n].k>>} ELSE {})
                  \cup {<<<<n>> \o l[1], l[2]>> : l \in DocLeaves(doc.o[n])} : n \in DOMAIN doc.o}

RECURSIVE DocDirs(_)
\* The path parts of every node without 'k' entry below the document.
DocDirs(doc) ==
    IF ~HasKey(doc, "o") THEN {}
    ELSE UNION {(IF HasKey(doc.o[n], "k") THEN {} ELSE {<<n>>})
                  \cup {<<n>> \o p : p \in DocDirs(doc.o[n])} : n \in DOMAIN doc.o}

RECURSIVE WellFormedDoc(_)
\* The grammar of a document: {} or {'o': {name: document}} for a directory,
\* {'k': key} for a file.
WellFormedDoc(doc) ==
    \/ DOMAIN doc = {}
    \/ DOMAIN doc = {"k"}
    \/ DOMAIN doc = {"o"} /\ DOMAIN doc.o # {} /\ \A n \in DOMAIN doc.o : WellFormedDoc(doc.o[n])

\* The scanned identity folders: their positions in the legacy repository.
Scanned == {i \in 1..Len(legacy) : i < shard_i /\ ~ScanFolder(legacy, i).skip}
\* The directory that lies at the path the scanner mapped the node to.
ContentDir(node_uuid) == EntryAt(legacy, mapping.val[node_uuid]).entries
\* The directory of the identity folder i: its `path`, else its `raw_input`.
OwnContentDir(i) ==
    IF legacy[i].path.type = "dir" THEN legacy[i].path.entries ELSE legacy[i].raw_input.entries
HasSubfolder(i) == legacy[i].path.type = "dir" \/ legacy[i].raw_input.type = "dir"
\* The identity the scan reads from the names of the identity folder i.
EntityUuid(i) == Uuid(legacy[i].shards)
\* The scanned identity folders that have a content folder of their own.
EntitiesWithFolder == {i \in Scanned : HasSubfolder(i)}
Returned == result.kind = "dict"
MigratedUuids == {result.value.keys[i] : i \in 1..Len(result.value.keys)}
Document(node_uuid) == result.value.val[node_uuid]

(***************************************************************************)
(* C1.  The key the pack store returned at position i is written to the    *)
(* `k` entry of exactly the document node addressed by the (identity,      *)
(* parts) recorded at position i, which is the node of the file that       *)
(* stream i opens; so in the returned mapping every file leaf holds the    *)
(* key of the content of its own file.                                     *)
(***************************************************************************)
C1_LeavesHoldOwnKeys ==
    Returned =>
        \A u \in MigratedUuids :
            \A f \in FilesBelow(ContentDir(u)) :
                <<f[1], HashKey(f[2])>> \in DocLeaves(Document(u))

C1_RegroupStep ==
    (pc = "regroup" /\ zip_i' = zip_i + 1) =>
        LET u == filepaths[zip_i][1]
            parts == filepaths[zip_i][2]
            key == hashkeys[zip_i]
            old == mapping_metadata.val[u]
            new == mapping_metadata'.val[u]
        IN  /\ streams[zip_i] = LazyOpener(mapping.val[u] \o parts)
            /\ key = HashKey(ReadStream(legacy, streams[zip_i]))
            /\ DocLeaves(new) = {l \in DocLeaves(old) : l[1] # parts} \cup {<<parts, key>>}
            /\ DocDirs(new) = DocDirs(old)
            /\ \A v \in DOMAIN mapping_metadata.val :
                   v # u => mapping_metadata'.val[v] = mapping_metadata.val[v]

C1_KeysReachTheirLeaves == []C1_LeavesHoldOwnKeys /\ [][C1_RegroupStep]_vars

\* Two entities hold a file of the same name with different contents, and the
\* mapping has been returned with a different key at each.
C1_Witness ==
    /\ Returned
    /\ \E u, v \in MigratedUuids :
          /\ u # v
          /\ \E l \in DocLeaves(Document(u)), m \in DocLeaves(Document(v)) :
                l[1] = m[1] /\ l[2] # m[2] /\ IsPyStr(l[2]) /\ IsPyStr(m[2])

(***************************************************************************)
(* C2.  An identity folder without `path` and without `raw_input` is never *)
(* a key of the mapping of get_node_repository_dirpaths, nor of the        *)
(* mapping that migrate_legacy_repository returns.                         *)
(***************************************************************************)
C2_MissingSubfolderExcluded ==
    \A i \in Scanned :
        ~HasSubfolder(i) =>
            /\ ~InDict(mapping, Uuid(legacy[i].shards))
            /\ Returned => Uuid(legacy[i].shards) \notin MigratedUuids

(***************************************************************************)
(* C3.  get_node_repository_dirpaths never raises because an identity      *)
(* folder lacks both subfolders, and every identity in its result is       *)
(* mapped to the `path` or `raw_input` directory of its own folder.        *)
(***************************************************************************)
C3_ScanNeverRaisesOwnFolder ==
    /\ raised # "UnboundLocalError"
    /\ \A i \in Scanned :
          LET u == Uuid(legacy[i].shards)
              dirpath == Basepath \o legacy[i].shards
          IN  InDict(mapping, u) =>
                  \/ mapping.val[u] = dirpath \o <<"path">>
                  \/ mapping.val[u] = dirpath \o <<"raw_input">>

(***************************************************************************)
(* C4.  When the bulk pack call fails, the failure ends the migration and  *)
(* the migration step: nothing is returned and no node record is written.  *)
(* Node records are written only after the migration has returned a        *)
(* mapping.                                                                *)
(***************************************************************************)
DbUntouched == db_writes = <<>> /\ \A u \in DOMAIN db : db[u] = <<>>

C4_PackFailureAborts ==
    /\ raised = "OSError" =>
          /\ pc = "raised"
          /\ ~ENABLED Next
          /\ result = NoResult
          /\ DbUntouched
    /\ ~DbUntouched => Returned /\ raised = "none"

\* The pack call failed after it had stored an object, in a run that has node
\* records to write.
C4_Witness ==
    /\ raised = "OSError"
    /\ container_objects # {}
    /\ backend = "sqlalchemy"
    /\ \E u \in DOMAIN db : InDict(mapping_metadata, u)

(***************************************************************************)
(* C5.  The run is aborted with a fatal error by the container check       *)
(* exactly when the container reports itself initialised.                  *)
(***************************************************************************)
C5_AbortsWhenInitialised ==
    (backend = "sqlalchemy" /\ pc # "container") =>
        (container_is_initialised <=> raised = "RuntimeError")

(***************************************************************************)
(* C6.  When the legacy root is not a directory (and the container check   *)
(* lets the run pass), the migration gives exactly one notice, does not    *)
(* raise, packs nothing and returns None, and the migration step of either *)
(* backend finishes without raising and without writing a node record.     *)
(***************************************************************************)
C6_NothingToMigrate ==
    (~legacy_is_dir /\ container_is_initialised /\ pc \in {"raised", "done"}) =>
        /\ raised = "none"
        /\ result = ResultNone
        /\ Len(warnings) = 1 /\ warnings[1].kind = "nothing to migrate"
        /\ pack_calls = <<>>
        /\ DbUntouched

(***************************************************************************)
(* C7.  In a run that reaches the pack phase add_streamed_objects_to_pack  *)
(* is called exactly once, with compression, after the build loop has      *)
(* finished for every discovered entity, with all deferred references:     *)
(* entities in scan order, files in walk order within an entity.           *)
(***************************************************************************)
RECURSIVE ExpectedStreamsFrom(_)
\* The openers of the files of the nodes from position i of the scan result on.
ExpectedStreamsFrom(i) ==
    IF i > Len(mapping.keys) THEN <<>>
    ELSE LET u == mapping.keys[i]
             files == FilesInWalkOrder(ContentDir(u), mapping.val[u])
         IN  [j \in 1..Len(files) |-> LazyOpener(files[j])] \o ExpectedStreamsFrom(i + 1)

C7_PackedOnceWithAllStreams ==
    /\ Len(pack_calls) <= 1
    /\ pc \in {"idle", "container", "basepath", "scan", "build", "reset"} => pack_calls = <<>>
    /\ (pc = "regroup" \/ Returned \/ raised = "OSError") => Len(pack_calls) = 1
    /\ pack_calls # <<>> =>
          /\ pack_calls[1].compress
          /\ pack_calls[1].open_streams
          /\ shard_i > Len(legacy)
          /\ node_i > Len(mapping.keys)
          /\ \A i \in 1..Len(mapping.keys) : InDict(mapping_metadata, mapping.keys[i])
          /\ repository = EmptyRepository
          /\ pack_calls[1].streams = ExpectedStreamsFrom(1)

\* The pack call has been made with one file of each of two entities.
C7_Witness ==
    /\ pc = "regroup"
    /\ Len(pack_calls) = 1
    /\ Len(pack_calls[1].streams) = 2
    /\ Len(mapping.keys) = 2
    /\ filepaths[1][1] # filepaths[2][1]

(***************************************************************************)
(* C8.  (as stated) Every discovered identity whose content folder holds   *)
(* zero files is returned with the document {}.                            *)
(***************************************************************************)
C8_ZeroFilesEmptyDocument ==
    Returned =>
        \A i \in EntitiesWithFolder :
            FilesBelow(OwnContentDir(i)) = {} =>
                /\ EntityUuid(i) \in MigratedUuids
                /\ DOMAIN Document(EntityUuid(i)) = {}

(***************************************************************************)
(* C8.  (amended) Every discovered identity whose content folder holds     *)
(* zero files is returned with a document without `k` entry that has a     *)
(* node for each subdirectory of the folder, which is {} when the folder   *)
(* has no subdirectory either; it has no entry in the flat lists and its   *)
(* document is the same from the pack call to the return.                  *)
(***************************************************************************)
RECURSIVE DirectoriesOnlyDoc(_)
\* The document of a directory that holds no file.
DirectoriesOnlyDoc(d) ==
    IF DOMAIN d = {} THEN <<>>
    ELSE [o |-> [n \in DOMAIN d |-> DirectoriesOnlyDoc(d[n].entries)]]

C8_ZeroFilesDocument ==
    (pc = "regroup" \/ Returned) =>
        \A i \in EntitiesWithFolder :
            LET u == EntityUuid(i)
            IN  FilesBelow(OwnContentDir(i)) = {} =>
                    /\ InDict(mapping_metadata, u)
                    /\ DOMAIN OwnContentDir(i) = {} => DOMAIN mapping_metadata.val[u] = {}
                    /\ DocLeaves(mapping_metadata.val[u]) = {}
                    /\ DocDirs(mapping_metadata.val[u]) = DirsBelow(OwnContentDir(i))
                    /\ mapping_metadata.val[u] = DirectoriesOnlyDoc(OwnContentDir(i))
                    /\ \A j \in 1..Len(filepaths) : filepaths[j][1] # u
                    /\ \A j \in 1..Len(streams) :
                          SubSeq(streams[j].LazyOpener, 1, Len(mapping.val[u])) # mapping.val[u]
                    /\ Returned => (u \in MigratedUuids /\ Document(u) = mapping_metadata.val[u])

\* An entity with an empty content folder has been returned with {} beside an
\* entity whose file the regroup loop has given its key.
C8_Witness ==
    /\ Returned
    /\ zip_i > 1
    /\ \E i \in EntitiesWithFolder :
          /\ DOMAIN OwnContentDir(i) = {}
          /\ DOMAIN Document(EntityUuid(i)) = {}

(***************************************************************************)
(* C9.  The returned document of an entity whose content folder holds N    *)
(* files has exactly N `k` leaves, one at the relative path of each file,  *)
(* and a directory node ({} or {'o': ...}) at the relative path of each    *)
(* subdirectory, the empty ones included, and nothing else.                *)
(***************************************************************************)
C9_DocumentHasFolderShape ==
    Returned =>
        \A i \in EntitiesWithFolder :
            /\ EntityUuid(i) \in MigratedUuids
            /\ LET doc == Document(EntityUuid(i))
                   d == OwnContentDir(i)
               IN  /\ WellFormedDoc(doc)
                   /\ Cardinality(DocLeaves(doc)) = Cardinality(FilesBelow(d))
                   /\ {l[1] : l \in DocLeaves(doc)} = {f[1] : f \in FilesBelow(d)}
                   /\ DocDirs(doc) = DirsBelow(d)

\* An entity with a file and an empty subdirectory has been returned with a
\* leaf and an empty directory node.
C9_Witness ==
    /\ Returned
    /\ \E i \in EntitiesWithFolder :
          /\ FilesBelow(OwnContentDir(i)) # {}
          /\ \E n \in DOMAIN OwnContentDir(i) :
                /\ OwnContentDir(i)[n].type = "dir"
                /\ DOMAIN OwnContentDir(i)[n].entries = {}
                /\ DOMAIN Document(EntityUuid(i)).o[n] = {}

C11_PathPreferred ==
    \A i \in Scanned :
        LET u == EntityUuid(i)
            dirpath == Basepath \o legacy[i].shards
        IN  /\ legacy[i].path.type = "dir" =>
                  InDict(mapping, u) /\ mapping.val[u] = dirpath \o <<"path">>
            /\ (legacy[i].path.type # "dir" /\ legacy[i].raw_input.type = "dir") =>
                  InDict(mapping, u) /\ mapping.val[u] = dirpath \o <<"raw_input">>
            /\ (InDict(mapping, u) /\ mapping.val[u] = dirpath \o <<"raw_input">>) =>
                  legacy[i].path.type # "dir" /\ legacy[i].raw_input.type = "dir"

\* A folder with a file under `path` and another file under `raw_input` has
\* been returned with the document of its `path`.
C11_Witness ==
    /\ Returned
    /\ \E i \in Scanned :
          /\ legacy[i].path.type = "dir" /\ legacy[i].raw_input.type = "dir"
          /\ FilesBelow(legacy[i].raw_input.entries) # {}
          /\ FilesBelow(legacy[i].path.entries) # {}
          /\ FilesBelow(legacy[i].path.entries) # FilesBelow(legacy[i].raw_input.entries)
          /\ mapping.val[EntityUuid(i)] = Basepath \o legacy[i].shards \o <<"path">>
          /\ \A f \in FilesBelow(legacy[i].path.entries) :
                <<f[1], HashKey(f[2])>> \in DocLeaves(Document(EntityUuid(i)))

(***************************************************************************)
(* C12.  An entry whose name does not match the pattern of its level is    *)
(* skipped: the scan goes on to the next entry without raising, without a  *)
(* warning and without a key for it in the result.  The entries that match *)
(* at the three levels are visited: each one the scan has passed is a key  *)
(* of the result, and the scan returns only when it has passed all.        *)
(***************************************************************************)
\* The patterns of the levels, read on the characters of a name: two
\* hexadecimal digits; 32 characters that are hexadecimal digits or hyphens.
TwoHexDigits(name) ==
    Len(Chars(name)) = 2 /\ \A c \in Range(Chars(name)) : c \in HexDigits
ThirtyTwoHexOrHyphen(name) ==
    Len(Chars(name)) = 32 /\ \A c \in Range(Chars(name)) : c \in HexDigits \cup {"-"}
NameMatches(i) ==
    /\ TwoHexDigits(legacy[i].shards[1])
    /\ TwoHexDigits(legacy[i].shards[2])
    /\ ThirtyTwoHexOrHyphen(legacy[i].shards[3])

C12_Passed ==
    /\ \A i \in 1..Len(legacy) :
          i < shard_i =>
              IF NameMatches(i)
              THEN InDict(mapping, EntityUuid(i))
              ELSE /\ ~InDict(mapping, EntityUuid(i))
                   /\ \A w \in 1..Len(warnings) :
                         warnings[w].path # Basepath \o legacy[i].shards
    /\ \A k \in 1..Len(mapping.keys) :
          \E i \in 1..Len(legacy) : NameMatches(i) /\ mapping.keys[k] = EntityUuid(i)
    /\ pc \in {"build", "reset", "regroup"} \/ Returned => shard_i > Len(legacy)

C12_SkipStep ==
    (pc = "scan" /\ shard_i <= Len(legacy) /\ ~NameMatches(shard_i)) =>
        /\ shard_i' = shard_i + 1
        /\ UNCHANGED <<mapping, path, warnings, raised, pc, build_vars, pack_vars>>

C12_NonMatchingSkipped == []C12_Passed /\ [][C12_SkipStep]_vars

\* The scan has returned after it skipped an entry and visited the entry that
\* followed it.
C12_Witness ==
    /\ pc = "build"
    /\ Len(legacy) = 2
    /\ ~NameMatches(1) /\ NameMatches(2)
    /\ mapping.keys = <<EntityUuid(2)>>
    /\ warnings = <<>>

(***************************************************************************)
(* C13.  (as stated) Every key of the scan result and of the returned      *)
(* mapping is a string of 32 characters.                                   *)
(***************************************************************************)
C13_KeysHave32Characters ==
    /\ \A k \in 1..Len(mapping.keys) : Len(mapping.keys[k]) = 32
    /\ Returned => \A u \in MigratedUuids : Len(u) = 32

(***************************************************************************)
(* C13.  (amended) Every key of the scan result and of the returned        *)
(* mapping is the concatenation of the three shard names the scanner       *)
(* accepted, of 2, 2 and 32 characters: a string of 36 characters.         *)
(***************************************************************************)
IsIdentity(u) ==
    /\ Len(u) = 36
    /\ \E i \in 1..Len(legacy) :
          /\ u = legacy[i].shards[1] \o legacy[i].shards[2] \o legacy[i].shards[3]
          /\ Len(legacy[i].shards[1]) = 2
          /\ Len(legacy[i].shards[2]) = 2
          /\ Len(legacy[i].shards[3]) = 32

C13_KeysHave36Characters ==
    /\ \A k \in 1..Len(mapping.keys) : IsIdentity(mapping.keys[k])
    /\ Returned => \A u \in MigratedUuids : IsIdentity(u)

\* A mapping with two keys has been returned.
C13_Witness ==
    /\ Returned
    /\ Cardinality(MigratedUuids) = 2

(***************************************************************************)
(* C14.  On successful completion migrate_legacy_repository returns,       *)
(* beside the mapping, the list of exactly the identity folders found      *)
(* without `path` and without `raw_input`, one warning for each, and the   *)
(* migration step receives the list.                                       *)
(***************************************************************************)
WithoutSubfolder == {i \in 1..Len(legacy) : NameMatches(i) /\ ~HasSubfolder(i)}

C14_ReturnsMissingList ==
    /\ Returned =>
          /\ HasKey(result, "missing_sub_repo_folder")
          /\ Range(result.missing_sub_repo_folder)
                = {Basepath \o legacy[i].shards : i \in WithoutSubfolder}
          /\ {warnings[w].path : w \in 1..Len(warnings)}
                = {Basepath \o legacy[i].shards : i \in WithoutSubfolder}
    /\ (backend = "django" /\ container_is_initialised) => raised = "none"

(***************************************************************************)
(* C15.  When the legacy root exists and the scan returns no identity, the *)
(* migration returns an empty mapping, and the pack call it makes has an   *)
(* empty list of streams, adds nothing to the store and raises nothing.    *)
(***************************************************************************)
C15_NoIdentities ==
    (legacy_is_dir /\ mapping.keys = <<>>) =>
        /\ raised # "OSError"
        /\ \A c \in 1..Len(pack_calls) : pack_calls[c].streams = <<>>
        /\ hashkeys = <<>>
        /\ container_objects = {}
        /\ Returned => result.value = EmptyDict
        /\ (~ENABLED Next /\ raised = "none") =>
              /\ Returned
              /\ Len(pack_calls) = 1
              /\ DbUntouched

\* The migration has returned from an existing legacy root without entries.
C15_Witness ==
    /\ Returned
    /\ legacy_is_dir
    /\ legacy = <<>>
    /\ Len(pack_calls) = 1
    /\ pc = "done"

(***************************************************************************)
(* C16.  In the Django step an identity of the returned mapping without    *)
(* node record does not abort the step, and every identity of the mapping  *)
(* that has a node record gets its document saved.                         *)
(***************************************************************************)
C16_MissingNodeSkipped ==
    (backend = "django" /\ ~ENABLED Next /\ legacy_is_dir /\ container_is_initialised) =>
        \A i \in 1..Len(legacy) :
            (NameMatches(i) /\ HasSubfolder(i) /\ HasKey(db, EntityUuid(i))) =>
                /\ raised = "none"
                /\ \E w \in 1..Len(db_writes) : db_writes[w] = EntityUuid(i)

(***************************************************************************)
(* C17.  No step of the migration changes the legacy repository: the tree  *)
(* under the legacy root, and whether the root exists, stay as they were.  *)
(***************************************************************************)
C17_LegacyStep == legacy' = legacy /\ legacy_is_dir' = legacy_is_dir

C17_LegacyUntouched == [][C17_LegacyStep]_vars

\* A run over a legacy repository with files has ended: with node records
\* written, or aborted by the pack call.
C17_Witness ==
    /\ \E i \in 1..Len(legacy) : HasSubfolder(i) /\ FilesBelow(OwnContentDir(i)) # {}
    /\ \/ pc = "done" /\ db_writes # <<>>
       \/ raised = "OSError"

(***************************************************************************)
(* C18.  Whenever the Django step meets an identity without node record or *)
(* an identity folder without subfolder, a log file that lists them exists *)
(* after the step, at the path named in a warning.                         *)
(***************************************************************************)
C18_LogFileWritten ==
    (backend = "django" /\ ~ENABLED Next /\ legacy_is_dir /\ container_is_initialised) =>
        \A i \in 1..Len(legacy) :
            (NameMatches(i) /\ (~HasSubfolder(i) \/ ~HasKey(db, EntityUuid(i)))) =>
                \E w \in 1..Len(warnings) : warnings[w].kind = "log file"

(***************************************************************************)
(* C19.  The Django step emits the final summary warning exactly in the    *)
(* runs in which entities were migrated.                                   *)
(***************************************************************************)
C19_SummaryWhenMigrated ==
    (backend = "django" /\ ~ENABLED Next /\ legacy_is_dir /\ container_is_initialised) =>
        ((\E i \in 1..Len(legacy) : NameMatches(i) /\ HasSubfolder(i))
            <=> (\E w \in 1..Len(warnings) : warnings[w].kind = "migrated the file repository"))

(***************************************************************************)
(* C20.  Every LazyFile that is constructed has no key when it is a        *)
(* DIRECTORY, no objects when it is a FILE, and a key that is None, a      *)
(* string or a LazyOpener; a construction with a key on a DIRECTORY, with  *)
(* objects on a FILE, or with a key of another kind raises and gives no    *)
(* object.                                                                 *)
(***************************************************************************)
KeyAllowed(key) == key = None \/ IsPyStr(key) \/ IsLazyOpener(key)
HasObjects(objects) == objects # None /\ DOMAIN objects # {}

C20_LazyFileInvariant ==
    lazyfile # NotConstructed =>
        LET a == lazyfile_args
        IN  IF IsRaised(lazyfile)
            THEN lazyfile.raised \in {"TypeError", "ValueError"}
            ELSE /\ lazyfile.file_type = "DIRECTORY" =>
                        lazyfile.key = None /\ a.key = None
                 /\ lazyfile.file_type = "FILE" =>
                        DOMAIN lazyfile.objects = {} /\ ~HasObjects(a.objects)
                 /\ KeyAllowed(lazyfile.key) /\ lazyfile.key = a.key
                 /\ lazyfile.file_type = a.file_type
                 /\ \A n \in DOMAIN lazyfile.objects : IsLazyFile(lazyfile.objects[n])

\* A FILE with a LazyOpener as key has been constructed.
C20_Witness ==
    /\ lazyfile # NotConstructed
    /\ ~IsRaised(lazyfile)
    /\ lazyfile.file_type = "FILE"
    /\ IsLazyOpener(lazyfile.key)

(***************************************************************************)
(* C21.  In a returned mapping every `k` entry of every document is a key  *)
(* the pack store returned; from serialization until the pack call every   *)
(* `k` entry of every retained document is a deferred reference.           *)
(***************************************************************************)
C21_KeysResolved ==
    /\ Returned =>
          \A u \in MigratedUuids :
              \A l \in DocLeaves(Document(u)) : IsPyStr(l[2]) /\ l[2] \in container_objects
    /\ pc \in {"build", "reset"} =>
          \A k \in 1..Len(mapping_metadata.keys) :
              \A l \in DocLeaves(mapping_metadata.val[mapping_metadata.keys[k]]) :
                  IsLazyOpener(l[2])

\* A document with two file leaves has been returned.
C21_Witness ==
    /\ Returned
    /\ \E u \in MigratedUuids : Cardinality(DocLeaves(Document(u))) = 2

(***************************************************************************)
(* C25.  The virtual tree is empty at every call of put_object_from_tree,  *)
(* no insertion fails on a path that is there already, and the document of *)
(* an identity has the files and directories of the content folder the     *)
(* scan returned for it, and no others.                                    *)
(***************************************************************************)
C25_TreeEmptyAtInsertion ==
    /\ pc = "build" => repository = EmptyRepository
    /\ raised # "FileExistsError"
    /\ pc = "reset" =>
          LET u == mapping.keys[node_i]
          IN  /\ repository = TreeOf("", ContentDir(u), mapping.val[u])
              /\ mapping_metadata.keys = SubSeq(mapping.keys, 1, node_i)
    /\ \A k \in 1..Len(mapping_metadata.keys) :
          LET u == mapping_metadata.keys[k]
              doc == mapping_metadata.val[u]
          IN  /\ {l[1] : l \in DocLeaves(doc)} = {f[1] : f \in FilesBelow(ContentDir(u))}
              /\ DocDirs(doc) = DirsBelow(ContentDir(u))

\* The second insertion has been made, after a first one that put a file into
\* the tree, and the tree holds the files of the second content folder only.
C25_Witness ==
    /\ pc = "reset"
    /\ node_i = 2
    /\ FilesBelow(ContentDir(mapping.keys[1])) # {}
    /\ FilesBelow(ContentDir(mapping.keys[2])) # {}
    /\ {f[1] : f \in FilesBelow(ContentDir(mapping.keys[1]))}
          # {f[1] : f \in FilesBelow(ContentDir(mapping.keys[2]))}

(***************************************************************************)
(* C26.  During the build phase nothing is packed: the store is as it was, *)
(* and every file of the tree has as key a deferred opener bound to the    *)
(* path of that file.  The pack call gets the unopened openers and is told *)
(* to open them; the objects in the store after it are those of the        *)
(* streams up to the one that failed, in list order, or of all of them.    *)
(***************************************************************************)
RECURSIVE TreeFiles(_, _)
\* <<absolute path, key>> of every FILE of the hierarchy which lies at abspath.
TreeFiles(obj, abspath) ==
    UNION {IF obj.objects[n].file_type = "FILE"
           THEN {<<abspath \o <<n>>, obj.objects[n].key>>}
           ELSE TreeFiles(obj.objects[n], abspath \o <<n>>) : n \in DOMAIN obj.objects}

RECURSIVE DocNodeAt(_, _)
\* The node of the document reached along the parts ([missing |-> TRUE] if none).
DocNodeAt(doc, parts) ==
    IF parts = <<>> THEN doc
    ELSE IF ~HasKey(doc, "o") THEN [missing |-> TRUE]
    ELSE IF ~HasKey(doc.o, parts[1]) THEN [missing |-> TRUE]
    ELSE DocNodeAt(doc.o[parts[1]], Tail(parts))

C27_FlatListsAgree ==
    pc \in {"build", "reset"} =>
        /\ Len(filepaths) = Len(streams)
        /\ \A i \in 1..Len(filepaths) :
              LET u == filepaths[i][1]
              IN  /\ InDict(mapping_metadata, u)
                  /\ HasKey(DocNodeAt(mapping_metadata.val[u], filepaths[i][2]), "k")
                  /\ DocNodeAt(mapping_metadata.val[u], filepaths[i][2]).k = streams[i]
        /\ \A k \in 1..Len(mapping_metadata.keys) :
              LET u == mapping_metadata.keys[k]
              IN  \A l \in DocLeaves(mapping_metadata.val[u]) :
                      Cardinality({i \in 1..Len(filepaths) : filepaths[i] = <<u, l[1]>>}) = 1

\* Two iterations have been made: one entity has a file in a subdirectory,
\* another a file at the top.
C27_Witness ==
    /\ pc = "reset"
    /\ node_i = 2
    /\ Len(filepaths) = 2
    /\ filepaths[1][1] # filepaths[2][1]
    /\ \E i \in 1..2 : Len(filepaths[i][2]) = 2

(***************************************************************************)
(* C29.  Both migration steps call migrate_legacy_repository as it is      *)
(* defined, and both complete: no step ends with a TypeError, and a step   *)
(* that the migration itself does not abort ends done.                     *)
(***************************************************************************)
C29_StepsAgree ==
    /\ raised # "TypeError"
    /\ (~ENABLED Next /\ backend # "none"
          /\ raised \notin {"RuntimeError", "UnboundLocalError", "OSError"}) => pc = "done"

(***************************************************************************)
(* C30.  Applying the mapping writes only the repository_metadata of nodes *)
(* whose UUID is a key of the mapping, and writes that identity's          *)
(* document; the other nodes keep what they had, and no node record is     *)
(* created or deleted.                                                     *)
(***************************************************************************)
Written(u) == \E w \in 1..Len(db_writes) : db_writes[w] = u

C30_OnlyMappedNodesWritten ==
    /\ DOMAIN db = DbNodeUuids
    /\ \A u \in DOMAIN db :
          IF Written(u)
          THEN Returned /\ u \in MigratedUuids /\ db[u] = Document(u)
          ELSE db[u] = <<>>
    /\ (pc = "done" /\ Returned) =>
          \A u \in DOMAIN db : u \in MigratedUuids => Written(u)

\* The step is done: one node has its document, a key of the mapping has no
\* node, and a node is no key of the mapping.
C30_Witness ==
    /\ pc = "done"
    /\ Len(db_writes) = 1
    /\ Cardinality(MigratedUuids) = 2
    /\ DOMAIN db[db_writes[1]] # {}
    /\ db[OtherUuid] = <<>>

(***************************************************************************)
(* C23.  get_unique_filename returns the filename itself when it is not in *)
(* list_of_filenames, and otherwise basename-n+ext for the smallest n >= 1 *)
(* for which that name is not in the list; what it returns is never in the *)
(* list; and every call returns.                                           *)
(***************************************************************************)
C23_Candidate(n) == Splitext(filename)[1] \o <<"-">> \o FormatD(n) \o Splitext(filename)[2]

C23_Returned ==
    pc = "unique_returned" =>
        /\ unique_filename \notin Range(list_of_filenames)
        /\ filename \notin Range(list_of_filenames) => unique_filename = filename
        /\ filename \in Range(list_of_filenames) =>
              \E n \in 1..(Len(list_of_filenames) + 1) :
                  /\ unique_filename = C23_Candidate(n)
                  /\ \A m \in 1..(n - 1) : C23_Candidate(m) \in Range(list_of_filenames)

C23_UniqueFilename == [](C23_Returned /\ append_int <= Len(list_of_filenames))
                         /\ <>(pc = "unique_returned")

\* "a.t" was asked for with "a.t" and "a-1.t" in the list, and "a-2.t" was returned.
C23_Witness ==
    /\ pc = "unique_returned"
    /\ filename = <<"a", ".", "t">>
    /\ <<"a", "-", "1", ".", "t">> \in Range(list_of_filenames)
    /\ unique_filename = <<"a", "-", "2", ".", "t">>

(***************************************************************************)
(* C24.  When all keys of some tuple of _set_incompatibilities are among   *)
(* the arguments, set raises ValueError and has called no set_k method (so *)
(* the key of a one-element tuple cannot be set); when a key has no set_k  *)
(* method, set raises ValueError as well; set returns only after it has    *)
(* called the method of every key.                                         *)
(***************************************************************************)
C24_Incompatible ==
    \E i \in 1..Len(set_incompatibilities) :
        \A k \in Range(set_incompatibilities[i]) : k \in Range(arguments)

C24_SetRaisesValueError ==
    /\ C24_Incompatible =>
          /\ set_calls = <<>>
          /\ pc # "set" => pc = "raised" /\ raised = "ValueError"
    /\ \A i \in 1..Len(set_incompatibilities) :
          Len(set_incompatibilities[i]) = 1 =>
              (set_incompatibilities[i][1] \in Range(arguments)
                  => set_incompatibilities[i][1] \notin Range(set_calls))
    /\ (~ENABLED NextSet /\ \E k \in Range(arguments) : set_attributes[k] = "missing") =>
          pc = "raised" /\ raised = "ValueError"
    /\ pc = "set_returned" =>
          /\ set_calls = arguments
          /\ \A k \in Range(arguments) : set_attributes[k] = "method"

\* Both keys of a tuple were given, with one more and with a method for each:
\* ValueError, and no method was called.
C24_Witness ==
    /\ pc = "raised"
    /\ raised = "ValueError"
    /\ set_incompatibilities = <<<<"c">>, <<"b", "a">>>>
    /\ arguments = <<"a", "b">>
    /\ \A k \in SetKeys : set_attributes[k] = "method"
    /\ set_calls = <<>>

(***************************************************************************)
(* C28.  The cache of input links never holds two labels whose sources     *)
(* have the same UUID; a call that is rejected with UniquenessError or     *)
(* ModificationNotAllowed leaves the cache as it was; and after a          *)
(* _replace_link_from between two stored nodes that returned the cache has *)
(* no entry under that label.                                              *)
(***************************************************************************)
C28_NoSourceTwice ==
    \A e1 \in inputlinks_cache, e2 \in inputlinks_cache :
        (e1[2].uuid = e2[2].uuid \/ e1[1] = e2[1]) => e1 = e2

C28_Call ==
    /\ link_call'.raised \in {"UniquenessError", "ModificationNotAllowed"} =>
          inputlinks_cache' = inputlinks_cache
    /\ (/\ link_call'.method = "_replace_link_from"
        /\ link_call'.raised = "none"
        /\ ~to_be_stored
        /\ ~link_call'.src.to_be_stored) =>
          ~\E e \in inputlinks_cache' : e[1] = link_call'.label

C28_LinkCache == []C28_NoSourceTwice /\ [][C28_Call]_vars

\* A stored node with a cached link from an unstored one: the link of another
\* label was replaced by one from a stored node, which took it out of the cache.
C28_Witness ==
    /\ ~to_be_stored
    /\ link_call.method = "_replace_link_from"
    /\ link_call.raised = "none"
    /\ ~link_call.src.to_be_stored
    /\ link_call.del = "deleted"
    /\ Cardinality(inputlinks_cache) = 1

(***************************************************************************)
(* C22.  deduplicate_uuids returns; it deletes and merges no rows; of the  *)
(* rows that share a UUID the first keeps it and every other one has a new *)
(* UUID of its own and a folder with the files of the folder of the first; *)
(* the messages are ['no duplicate UUIDs found'] exactly when no row has   *)
(* changed, and otherwise there is one message for each changed row.       *)
(***************************************************************************)
C22_Changed == {pk \in DOMAIN dedup_rows : dedup_rows[pk] \in FreshUuids}

C22_Result ==
    /\ raised = "none"
    /\ pc = "dedup_returned"
    /\ \A d \in Range(duplicates) :
          LET first == CHOOSE i \in 1..Len(duplicates) :
                          /\ duplicates[i][2] = d[2]
                          /\ \A j \in 1..(i - 1) : duplicates[j][2] # d[2]
          IN  IF d = duplicates[first]
              THEN dedup_rows[d[1]] = d[2]
              ELSE /\ d[1] \in C22_Changed
                   /\ \A pk \in DOMAIN dedup_rows : dedup_rows[pk] = dedup_rows[d[1]] => pk = d[1]
                   /\ HasKey(dedup_folders, d[2])
                   /\ HasKey(dedup_folders, dedup_rows[d[1]])
                   /\ dedup_folders[dedup_rows[d[1]]] = dedup_folders[d[2]]
    /\ \A pk \in C22_Changed : \E d \in Range(duplicates) : d[1] = pk
    /\ (messages = <<NoDuplicatesMessage>>) <=> (C22_Changed = {})
    /\ C22_Changed # {} =>
          /\ Len(messages) = Cardinality(C22_Changed)
          /\ \A pk \in C22_Changed :
                \E i \in 1..Len(messages) :
                    /\ messages[i].text = "updated UUID of row"
                    /\ messages[i].pk = pk
                    /\ messages[i].to = dedup_rows[pk]

C22_AllDuplicatesGetNewUuid ==
    /\ [](pc \in {"raised", "dedup_returned"} => C22_Result)
    /\ [][DOMAIN dedup_rows' = DOMAIN dedup_rows]_vars

====
